---- MODULE Spec2Model ----
(***************************************************************************)
(* TextAnalyzer: the ensemble engine (core/ensemble_engine.py), the five   *)
(* analyzers it runs (analyzers/*.py), the facade (core/text_analyzer.py)  *)
(* and the calibrator (utils/calibrator.py).                               *)
(*                                                                         *)
(* Numbers.  Python floats are modelled as exact fixed-point rationals:    *)
(*   - an ai/human probability returned by predict is in tenths (0..10);   *)
(*   - a raw feature of a text is in units of 1e-5;                        *)
(*   - a metric rounded by round(x, 4) is in units of 1e-4, one rounded    *)
(*     by round(x, 3) in units of 1e-3, one rounded by round(x, 2) in      *)
(*     units of 1e-2;                                                      *)
(*   - a weight of the weight map is in hundredths.                        *)
(* round() is round-half-even on the exact value.  Values the code keeps   *)
(* unrounded (the locals of _aggregate_predictions) are kept as fractions  *)
(* num/den.                                                                *)
(***************************************************************************)
EXTENDS Integers, Sequences, FiniteSets, TLC

VARIABLES
    analyzers,            \* EnsembleEngine.analyzers: the roster, a sequence of registry names
    weights,              \* EnsembleEngine.weights: analyzer name -> weight (hundredths)
    prediction_history,   \* EnsembleEngine.prediction_history
    last,                 \* outcome of the last operation (what the caller observes)
    completed,            \* number of EnsembleEngine.analyze calls that returned
    is_calibrated,        \* TextAnalyzer.is_calibrated
    calibration_threshold,\* TextAnalyzer.calibration_threshold
    cache,                \* TextAnalyzer.cache: cache key -> AnalysisResult
    stats,                \* TextAnalyzer.stats
    best_parameters,      \* EnsembleCalibrator.best_parameters
    calibration_results,  \* EnsembleCalibrator.calibration_results
    inp,                  \* the input of a pure-function run (SpecPure), "none" otherwise
    pc,                   \* position of a pure-function run (SpecPure)
    calls,                \* the analyze calls in progress in threads (SpecConcurrent)
    objects               \* weight dictionaries and the engines that refer to them (SpecEngines)

engine == <<analyzers, weights, prediction_history>>

facade == <<is_calibrated, calibration_threshold, cache, stats>>

calibrator == <<best_parameters, calibration_results>>

vars == <<analyzers, weights, prediction_history, last, completed,
          is_calibrated, calibration_threshold, cache, stats,
          best_parameters, calibration_results, inp, pc, calls, objects>>

-----------------------------------------------------------------------------
(* Arithmetic helpers *)

Abs(x) == IF x < 0 THEN -x ELSE x

Min(a, b) == IF a < b THEN a ELSE b

Max(a, b) == IF a > b THEN a ELSE b

\* round-half-even of n/d to an integer, n >= 0, d > 0 (Python's round())
RoundHalfEven(n, d) ==
    LET q == n \div d
        r == n % d
    IN  IF 2 * r > d THEN q + 1
        ELSE IF 2 * r < d THEN q
        ELSE IF q % 2 = 0 THEN q ELSE q + 1

\* <<floor(n * 10^k / d), remainder>> by long division (keeps products small)
RECURSIVE DivScale(_, _, _)
DivScale(n, d, k) ==
    IF k = 0 THEN <<n \div d, n % d>>
    ELSE LET NextDigit(p) == <<p[1] * 10 + (p[2] * 10) \div d, (p[2] * 10) % d>>
         IN  NextDigit(DivScale(n, d, k - 1))

\* round(n/d, k) in units of 10^-k
RoundFrac(n, d, k) ==
    LET HalfEven(p) == IF 2 * p[2] > d THEN p[1] + 1
                       ELSE IF 2 * p[2] < d THEN p[1]
                       ELSE IF p[1] % 2 = 0 THEN p[1] ELSE p[1] + 1
    IN  HalfEven(DivScale(n, d, k))

RECURSIVE Gcd(_, _)
Gcd(a, b) == IF b = 0 THEN a ELSE Gcd(b, a % b)

\* the fraction <<n, d>> in lowest terms, n >= 0, d > 0
Reduce(f) == LET g == Gcd(f[1], f[2]) IN <<f[1] \div g, f[2] \div g>>

RECURSIVE SumSeq(_)
SumSeq(s) == IF s = <<>> THEN 0 ELSE Head(s) + SumSeq(Tail(s))

\* dict.get(key, default)
Get(m, k, default) == IF k \in DOMAIN m THEN m[k] ELSE default

-----------------------------------------------------------------------------
(* analyzers/__init__.py *)

REGISTRY == {"lexical", "syntactic", "semantic", "stylistic", "ml"}

DEFAULT_ANALYZERS == <<"lexical", "syntactic", "semantic", "stylistic", "ml">>

DEFAULT_WEIGHTS ==
    [k \in REGISTRY |->
        CASE k = "lexical" -> 25
          [] k = "syntactic" -> 25
          [] k = "semantic" -> 20
          [] k = "stylistic" -> 15
          [] k = "ml" -> 15]

\* analyzer.name, set by each analyzer's __init__
AnalyzerName(k) ==
    CASE k = "lexical" -> "LexicalAnalyzer"
      [] k = "syntactic" -> "SyntacticAnalyzer"
      [] k = "semantic" -> "SemanticAnalyzer"
      [] k = "stylistic" -> "StylisticAnalyzer"
      [] k = "ml" -> "MLAnalyzer"

-----------------------------------------------------------------------------
(* Texts.                                                                   *)
(* A text is what the analyzers read off it: whether it is a string, its   *)
(* length, its length after strip(), and the raw features each analyzer    *)
(* computes from its words and sentences (units of 1e-5).  faults is the   *)
(* set of analyzers whose internal computation throws on this text for a   *)
(* reason other than input validation.  sample stands for the first and    *)
(* last 100 characters, security for a text on which the validator's       *)
(* security screen reports an error.                                       *)

\* signed round-half-even of n/d
RoundSigned(n, d) == IF n < 0 THEN -RoundHalfEven(-n, d) ELSE RoundHalfEven(n, d)

_validate_input_NoStrip(text) ==
    /\ text.kind = "str"
    /\ text.len # 0 /\ text.stripLen # 0
    /\ ~(text.len < 10)

\* BaseAnalyzer._validate_input: TRUE when it returns, FALSE when it raises ValueError
_validate_input(text) ==
    /\ text.kind = "str"
    /\ text.len # 0 /\ text.stripLen # 0
    /\ ~(text.stripLen < 10)

-----------------------------------------------------------------------------
(* analyzers/lexical_analyzer.py *)

\* the entries of the metrics dictionary that predict and the engine read
LexicalAnalyzer_analyze(text) ==
    [ttr |-> RoundSigned(text.lex.ttr, 10),
     burstiness |-> RoundSigned(text.lex.burstiness, 10),
     unique_words_ratio |-> RoundSigned(text.lex.ttr, 10),
     confidence |-> RoundHalfEven(Min(900000, 600000 + Abs(text.lex.ttr - 50000) * 6), 100)]

LexicalAnalyzer_score(metrics) ==
    LET ttr == Get(metrics, "ttr", 5000)
        burstiness == Get(metrics, "burstiness", 0)
        unique_ratio == Get(metrics, "unique_words_ratio", 5000)
    IN  (IF ttr > 8000 THEN 4 ELSE IF ttr < 3000 THEN 3 ELSE 0)
        + (IF burstiness < 1000 THEN 3 ELSE 0)
        + (IF unique_ratio > 9000 THEN 2 ELSE 0)

\* LexicalAnalyzer.predict with human_prob not taken as the complement of ai_prob
LexicalAnalyzer_predict_NoComplement(metrics) ==
    LET ai_prob == Min(10, LexicalAnalyzer_score(metrics))
    IN  <<ai_prob, ai_prob>>

LexicalAnalyzer_predict(metrics) ==
    LET ai_prob == Min(10, LexicalAnalyzer_score(metrics))
    IN  <<ai_prob, 10 - ai_prob>>

(* analyzers/syntactic_analyzer.py *)

SyntacticAnalyzer_analyze(text) ==
    [sentence_variability |-> RoundSigned(text.syn.variability, 10),
     pattern_repetitiveness |-> RoundSigned(text.syn.repetitiveness, 10),
     confidence |-> RoundHalfEven(Min(900000, 500000 + text.syn.variability * 4), 100)]

SyntacticAnalyzer_score_LowerCut(metrics) ==
    LET variability == Get(metrics, "sentence_variability", 5000)
        repetitiveness == Get(metrics, "pattern_repetitiveness", 1000)
    IN  (IF variability < 1000 THEN 4 ELSE 0)
        + (IF repetitiveness < 10 THEN 3 ELSE IF repetitiveness > 5000 THEN 2 ELSE 0)

SyntacticAnalyzer_score(metrics) ==
    LET variability == Get(metrics, "sentence_variability", 5000)
        repetitiveness == Get(metrics, "pattern_repetitiveness", 1000)
    IN  (IF variability < 2000 THEN 4 ELSE 0)
        + (IF repetitiveness < 10 THEN 3 ELSE IF repetitiveness > 5000 THEN 2 ELSE 0)

SyntacticAnalyzer_predict(metrics) ==
    LET ai_prob == Min(10, SyntacticAnalyzer_score(metrics))
    IN  <<ai_prob, 10 - ai_prob>>

(* analyzers/semantic_analyzer.py; thematic_coherence is round(avg_overlap, 2) *)

SemanticAnalyzer_analyze(text) ==
    [subjectivity |-> RoundSigned(text.sem.subjectivity, 10),
     conceptual_density |-> RoundSigned(text.sem.conceptual_density, 10),
     thematic_coherence |-> RoundSigned(text.sem.avg_overlap, 1000),
     confidence |-> RoundHalfEven(Min(900000, 400000 + text.sem.conceptual_density * 5), 100)]

SemanticAnalyzer_score(metrics) ==
    LET subjectivity == Get(metrics, "subjectivity", 5000)
        conceptual_density == Get(metrics, "conceptual_density", 3000)
        coherence == Get(metrics, "thematic_coherence", 500)
    IN  (IF subjectivity < 1000 THEN 3 ELSE 0)
        + (IF 1500 < conceptual_density /\ conceptual_density < 2500 THEN 2 ELSE 0)
        + (IF coherence > 800 THEN 3 ELSE 0)

SemanticAnalyzer_predict(metrics) ==
    LET ai_prob == Min(10, SemanticAnalyzer_score(metrics))
    IN  <<ai_prob, 10 - ai_prob>>

(* analyzers/stylistic_analyzer.py; punct_variability is round(x, 3) *)

StylisticAnalyzer_analyze(text) ==
    [capital_ratio |-> RoundSigned(text.sty.upper_ratio, 10),
     punct_variability |-> RoundSigned(text.sty.punct_variability, 100),
     phrase_repetitiveness |-> RoundSigned(text.sty.phrase_repetitiveness, 10),
     confidence |-> RoundHalfEven(Min(900000, 500000 + text.sty.punct_variability * 3), 100)]

StylisticAnalyzer_score(metrics) ==
    LET upper_ratio == Get(metrics, "capital_ratio", 500)
        punct_variability == Get(metrics, "punct_variability", 1000)
        phrase_repet == Get(metrics, "phrase_repetitiveness", 1000)
    IN  (IF punct_variability < 500 THEN 3 ELSE 0)
        + (IF upper_ratio < 200 THEN 2 ELSE 0)
        + (IF phrase_repet > 3000 THEN 3 ELSE 0)

StylisticAnalyzer_predict(metrics) ==
    LET ai_prob == Min(10, StylisticAnalyzer_score(metrics))
    IN  <<ai_prob, 10 - ai_prob>>

(* analyzers/ml_analyzer.py; complexity = (entropy + transition + char_transition) / 3 *)

MLAnalyzer_analyze(text) ==
    LET sum3 == text.ml.entropy + text.ml.transition_diversity + text.ml.char_transition_diversity
    IN  [entropy |-> RoundSigned(text.ml.entropy, 10),
         transition_diversity |-> RoundSigned(text.ml.transition_diversity, 10),
         complexity_score |-> RoundHalfEven(sum3, 30),
         max_repeat_ratio |-> RoundSigned(text.ml.max_repeat_ratio, 10),
         confidence |-> RoundHalfEven(Min(950000, 600000 + sum3), 100)]

MLAnalyzer_score(metrics) ==
    LET entropy == Get(metrics, "entropy", 5000)
        transition_div == Get(metrics, "transition_diversity", 5000)
        max_repeat == Get(metrics, "max_repeat_ratio", 0)
    IN  (IF entropy < 3000 \/ entropy > 8000 THEN 3 ELSE 0)
        + (IF transition_div < 4000 THEN 3 ELSE 0)
        + (IF max_repeat > 1000 THEN 2 ELSE 0)

MLAnalyzer_predict(metrics) ==
    LET ai_prob == Min(10, MLAnalyzer_score(metrics))
    IN  <<ai_prob, 10 - ai_prob>>

(* dynamic dispatch on the analyzer object *)

analyzer_analyze(k, text) ==
    CASE k = "lexical" -> LexicalAnalyzer_analyze(text)
      [] k = "syntactic" -> SyntacticAnalyzer_analyze(text)
      [] k = "semantic" -> SemanticAnalyzer_analyze(text)
      [] k = "stylistic" -> StylisticAnalyzer_analyze(text)
      [] k = "ml" -> MLAnalyzer_analyze(text)

analyzer_predict(k, metrics) ==
    CASE k = "lexical" -> LexicalAnalyzer_predict(metrics)
      [] k = "syntactic" -> SyntacticAnalyzer_predict(metrics)
      [] k = "semantic" -> SemanticAnalyzer_predict(metrics)
      [] k = "stylistic" -> StylisticAnalyzer_predict(metrics)
      [] k = "ml" -> MLAnalyzer_predict(metrics)

\* analyzer.analyze(text) raises: validation, or the analyzer's computation throws
AnalyzerRaises(k, text) == ~_validate_input(text) \/ k \in text.faults

-----------------------------------------------------------------------------
(* core/ensemble_engine.py *)

\* the loop of EnsembleEngine.analyze over self.analyzers: the predictions list
RECURSIVE RunAnalyzers(_, _)
RunAnalyzers(roster, text) ==
    IF roster = <<>> THEN <<>>
    ELSE LET k == Head(roster)
             Prediction(metrics, p) ==
                 [analyzer |-> AnalyzerName(k),
                  ai_prob |-> p[1],
                  human_prob |-> p[2],
                  confidence |-> Get(metrics, "confidence", 5000)]
             Predicted(metrics) == Prediction(metrics, analyzer_predict(k, metrics))
         IN  IF AnalyzerRaises(k, text)
             THEN RunAnalyzers(Tail(roster), text)
             ELSE <<Predicted(analyzer_analyze(k, text))>>
                  \o RunAnalyzers(Tail(roster), text)

\* the record the except branch stores for an analyzer that raised
NeutralRecord ==
    [error |-> TRUE, ai_probability |-> 5, human_probability |-> 5, confidence |-> 0]

\* individual_results[analyzer.name] for one analyzer of the roster
IndividualResult(k, text) ==
    IF AnalyzerRaises(k, text) THEN NeutralRecord
    ELSE LET Record(metrics, p) ==
                 [error |-> FALSE,
                  ai_probability |-> p[1],
                  human_probability |-> p[2],
                  confidence |-> Get(metrics, "confidence", 5000)]
             Predicted(metrics) == Record(metrics, analyzer_predict(k, metrics))
         IN  Predicted(analyzer_analyze(k, text))

\* the individual_results dictionary: keyed by analyzer.name, a later analyzer
\* of the same name overwrites an earlier one
IndividualResults(roster, text) ==
    [n \in {AnalyzerName(roster[i]) : i \in DOMAIN roster} |->
        LET i == CHOOSE j \in DOMAIN roster :
                    /\ AnalyzerName(roster[j]) = n
                    /\ \A l \in DOMAIN roster : AnalyzerName(roster[l]) = n => l <= j
        IN  IndividualResult(roster[i], text)]

\* self.weights.get(analyzer_name, 0.2)
ConfiguredWeight(w, analyzer_name) == Get(w, analyzer_name, 20)

\* line 126 without the confidence factor
PredictionWeight_NoConfidence(w, pred) == ConfiguredWeight(w, pred.analyzer)

\* line 126: weight = self.weights.get(analyzer_name, 0.2) * pred['confidence']
PredictionWeight(w, pred) == ConfiguredWeight(w, pred.analyzer) * pred.confidence

RECURSIVE WeightedSums(_, _)
\* the accumulators of the loop of _aggregate_predictions
WeightedSums(w, predictions) ==
    IF predictions = <<>>
    THEN [weighted_ai_sum |-> 0, weighted_human_sum |-> 0, weight_sum |-> 0,
          confidence_weighted_sum |-> 0]
    ELSE LET Accumulate(pred, weight, rest) ==
                 [weighted_ai_sum |-> pred.ai_prob * weight + rest.weighted_ai_sum,
                  weighted_human_sum |-> pred.human_prob * weight + rest.weighted_human_sum,
                  weight_sum |-> weight + rest.weight_sum,
                  confidence_weighted_sum |->
                      pred.confidence * ConfiguredWeight(w, pred.analyzer)
                      + rest.confidence_weighted_sum]
         IN  Accumulate(Head(predictions), PredictionWeight(w, Head(predictions)),
                        WeightedSums(w, Tail(predictions)))

\* lines 135-140: ai_prob and human_prob as fractions <<num, den>>
AggregatedProbabilities(sums) ==
    IF sums.weight_sum > 0
    THEN [ai |-> <<sums.weighted_ai_sum, 10 * sums.weight_sum>>,
          human |-> <<sums.weighted_human_sum, 10 * sums.weight_sum>>]
    ELSE [ai |-> <<1, 2>>, human |-> <<1, 2>>]

\* the population variance (divisor n) in place of the sample variance
Variance_Population(xs) ==
    LET n == Len(xs)
        s == SumSeq(xs)
        ss == SumSeq([i \in DOMAIN xs |-> xs[i] * xs[i]])
    IN  <<n * ss - s * s, 100 * n * n>>

\* statistics.variance(xs) of probabilities given in tenths, as a fraction
\* <<num, den>>; it raises StatisticsError for fewer than two data points
Variance(xs) ==
    LET n == Len(xs)
        s == SumSeq(xs)
        ss == SumSeq([i \in DOMAIN xs |-> xs[i] * xs[i]])
    IN  <<n * ss - s * s, 100 * n * (n - 1)>>

VarianceRaises(xs) == Len(xs) < 2

\* lines 142-147: agreement_score as a fraction <<num, den>>
AgreementScore(agreement_scores) ==
    IF agreement_scores # <<>>
    THEN LET OneMinus(v) == <<v[2] - Min(v[2], v[1]), v[2]>>
         IN  OneMinus(Variance(agreement_scores))
    ELSE <<0, 1>>

\* the cutoffs of lines 149-158 taken inclusively (>= and <=)
Classification_Inclusive(ai, human) ==
    IF 5 * ai[1] >= 3 * ai[2]
    THEN [classification |-> "Probabilmente AI",
          confidence_level |-> IF 4 * ai[1] >= 3 * ai[2] THEN "Alta" ELSE "Media"]
    ELSE IF 5 * ai[1] <= 2 * ai[2]
    THEN [classification |-> "Probabilmente Umano",
          confidence_level |-> IF 4 * human[1] >= 3 * human[2] THEN "Alta" ELSE "Media"]
    ELSE [classification |-> "Indeterminato", confidence_level |-> "Bassa"]

\* lines 149-158: classification and confidence_level; x > 0.6 is 5x > 3,
\* x < 0.4 is 5x < 2, x > 0.75 is 4x > 3
Classification(ai, human) ==
    IF 5 * ai[1] > 3 * ai[2]
    THEN [classification |-> "Probabilmente AI",
          confidence_level |-> IF 4 * ai[1] > 3 * ai[2] THEN "Alta" ELSE "Media"]
    ELSE IF 5 * ai[1] < 2 * ai[2]
    THEN [classification |-> "Probabilmente Umano",
          confidence_level |-> IF 4 * human[1] > 3 * human[2] THEN "Alta" ELSE "Media"]
    ELSE [classification |-> "Indeterminato", confidence_level |-> "Bassa"]

\* _aggregate_predictions raises (statistics.variance of a single value)
AggregateRaises(predictions) ==
    predictions # <<>> /\ VarianceRaises([i \in DOMAIN predictions |-> predictions[i].ai_prob])

\* the local variables of _aggregate_predictions before rounding
AggregateLocals(w, predictions) ==
    LET Locals(sums, probs) ==
            [weight_sum |-> sums.weight_sum,
             weighted_ai_sum |-> sums.weighted_ai_sum,
             confidence_weighted_sum |-> sums.confidence_weighted_sum,
             ai_prob |-> probs.ai,
             human_prob |-> probs.human,
             agreement_score |->
                 AgreementScore([i \in DOMAIN predictions |-> predictions[i].ai_prob])]
        Divided(sums) == Locals(sums, AggregatedProbabilities(sums))
    IN  Divided(WeightedSums(w, predictions))

\* the dictionary _aggregate_predictions returns: probabilities in 1e-4,
\* agreement_score and weighted_confidence in 1e-3
AggregateResult(locals) ==
    LET Rounded(loc, cls) ==
            [ai_probability |-> RoundFrac(loc.ai_prob[1], loc.ai_prob[2], 4),
             human_probability |-> RoundFrac(loc.human_prob[1], loc.human_prob[2], 4),
             classification |-> cls.classification,
             confidence_level |-> cls.confidence_level,
             agreement_score |->
                 RoundFrac(loc.agreement_score[1], loc.agreement_score[2], 3),
             weighted_confidence |-> RoundHalfEven(loc.confidence_weighted_sum, 1000)]
        Classified(loc) == Rounded(loc, Classification(loc.ai_prob, loc.human_prob))
    IN  Classified(locals)

\* _aggregate_predictions(predictions) on an engine with the weight map w
_aggregate_predictions(w, predictions) ==
    AggregateResult(AggregateLocals(w, predictions))

\* _calculate_overall_confidence, in 1e-3:
\*   0.4 * mean(confidence) + 0.3 * agreement + 0.3 * |mean(ai_prob) - 0.5| * 2
\* over the common denominator 10^5 * n * (n - 1)  (10^5 when n = 1)
_calculate_overall_confidence_NoCertainty(predictions) ==
    IF predictions = <<>> THEN 0
    ELSE LET n == Len(predictions)
             ai_probs == [i \in DOMAIN predictions |-> predictions[i].ai_prob]
             m == IF n > 1 THEN n - 1 ELSE 1
             Agreement(v) == 30000 * n * m - 300 * Min(v[2], v[1])
             Combined(sc, agreement, den) ==
                 RoundFrac(Min(den, 4 * sc * m + agreement), den, 3)
         IN  Combined(SumSeq([i \in DOMAIN predictions |-> predictions[i].confidence]),
                      IF n > 1 THEN Agreement(Variance(ai_probs)) ELSE 30000,
                      100000 * n * m)

_calculate_overall_confidence(predictions) ==
    IF predictions = <<>> THEN 0
    ELSE LET n == Len(predictions)
             ai_probs == [i \in DOMAIN predictions |-> predictions[i].ai_prob]
             m == IF n > 1 THEN n - 1 ELSE 1
             Agreement(v) == 30000 * n * m - 300 * Min(v[2], v[1])
             Combined(sc, sa, agreement, den) ==
                 RoundFrac(Min(den, 4 * sc * m + agreement + 6000 * m * Abs(sa - 5 * n)),
                           den, 3)
         IN  Combined(SumSeq([i \in DOMAIN predictions |-> predictions[i].confidence]),
                      SumSeq(ai_probs),
                      IF n > 1 THEN Agreement(Variance(ai_probs)) ELSE 30000,
                      100000 * n * m)

\* a history that keeps the newest record only
SaveToHistory_Replacing(history, record) == <<record>>

\* lines 98-102: self.prediction_history.append({...})
SaveToHistory(history, record) == Append(history, record)

\* EnsembleEngine.analyze with analyzers that wear out: once a prediction is
\* in the history the first analyzer of the roster is no longer consulted
EnsembleEngine_analyze_Drifting(roster, w, history, text, now) ==
    LET Returned(predictions, ensemble_result, overall_confidence) ==
            [raised |-> FALSE,
             result |-> [individual_results |-> IndividualResults(roster, text),
                         ensemble_result |-> ensemble_result,
                         overall_confidence |-> overall_confidence,
                         prediction_method |-> "weighted_voting",
                         analyzer_count |-> Len(roster)],
             locals |-> AggregateLocals(w, predictions),
             predictions |-> predictions,
             history |-> SaveToHistory(history,
                                       [timestamp |-> now,
                                        ensemble_result |-> ensemble_result,
                                        overall_confidence |-> overall_confidence])]
        Aggregated(predictions) ==
            IF AggregateRaises(predictions)
            THEN [raised |-> TRUE, error |-> "StatisticsError", history |-> history]
            ELSE Returned(predictions, _aggregate_predictions(w, predictions),
                          _calculate_overall_confidence(predictions))
    IN  Aggregated(RunAnalyzers(IF history = <<>> THEN roster ELSE Tail(roster), text))

\* EnsembleEngine.analyze(text) on an engine with this roster, weight map and
\* history, at time now: whether it raises, what it returns (with the locals
\* of _aggregate_predictions), and the history afterwards
EnsembleEngine_analyze(roster, w, history, text, now) ==
    LET Returned(predictions, locals, ensemble_result, overall_confidence) ==
            [raised |-> FALSE,
             result |-> [individual_results |-> IndividualResults(roster, text),
                         ensemble_result |-> ensemble_result,
                         overall_confidence |-> overall_confidence,
                         prediction_method |-> "weighted_voting",
                         analyzer_count |-> Len(roster)],
             locals |-> locals,
             predictions |-> predictions,
             history |-> SaveToHistory(history,
                                       [timestamp |-> now,
                                        ensemble_result |-> ensemble_result,
                                        overall_confidence |-> overall_confidence])]
        Rounded(predictions, locals) ==
            Returned(predictions, locals, AggregateResult(locals),
                     _calculate_overall_confidence(predictions))
        Aggregated(predictions) ==
            IF AggregateRaises(predictions)
            THEN [raised |-> TRUE, error |-> "StatisticsError", history |-> history]
            ELSE Rounded(predictions, AggregateLocals(w, predictions))
    IN  Aggregated(RunAnalyzers(roster, text))

-----------------------------------------------------------------------------
(* Inputs: feature vectors of texts (raw, units of 1e-5) and weight maps *)

LexicalFeatures ==
    {[ttr |-> 100000, burstiness |-> -100000],
     [ttr |-> 50000, burstiness |-> 20000],
     [ttr |-> 85000, burstiness |-> 20000],
     [ttr |-> 33333, burstiness |-> 20000],
     [ttr |-> 25000, burstiness |-> 20000]}

SyntacticFeatures ==
    {[variability |-> 0, repetitiveness |-> 0],
     [variability |-> 10000, repetitiveness |-> 60000],
     [variability |-> 10000, repetitiveness |-> 20000],
     [variability |-> 50000, repetitiveness |-> 20000],
     [variability |-> 50000, repetitiveness |-> 0]}

SemanticFeatures ==
    {[subjectivity |-> 0, conceptual_density |-> 20000, avg_overlap |-> 900000],
     [subjectivity |-> 0, conceptual_density |-> 10000, avg_overlap |-> 100000],
     [subjectivity |-> 20000, conceptual_density |-> 30000, avg_overlap |-> 100000],
     [subjectivity |-> 0, conceptual_density |-> 20000, avg_overlap |-> 100000]}

StylisticFeatures ==
    {[punct_variability |-> 0, upper_ratio |-> 1000, phrase_repetitiveness |-> 50000],
     [punct_variability |-> 100000, upper_ratio |-> 5000, phrase_repetitiveness |-> 10000],
     [punct_variability |-> 0, upper_ratio |-> 5000, phrase_repetitiveness |-> 10000],
     [punct_variability |-> 57735, upper_ratio |-> 1000, phrase_repetitiveness |-> 10000]}

MLFeatures ==
    {[entropy |-> 90000, transition_diversity |-> 30000,
      char_transition_diversity |-> 30000, max_repeat_ratio |-> 30000],
     [entropy |-> 70000, transition_diversity |-> 100000,
      char_transition_diversity |-> 70000, max_repeat_ratio |-> 5000],
     [entropy |-> 90000, transition_diversity |-> 100000,
      char_transition_diversity |-> 60000, max_repeat_ratio |-> 5000],
     [entropy |-> 81234, transition_diversity |-> 95000,
      char_transition_diversity |-> 61111, max_repeat_ratio |-> 20000]}

\* a string of len characters, stripLen of them left by strip()
StrText(len, stripLen, lex, syn, sem, sty, ml, faults) ==
    [kind |-> "str", len |-> len, stripLen |-> stripLen, words |-> stripLen \div 6,
     sample |-> 1, security |-> FALSE,
     lex |-> lex, syn |-> syn, sem |-> sem, sty |-> sty, ml |-> ml, faults |-> faults]

NoLex == [ttr |-> 0, burstiness |-> 0]

NoSyn == [variability |-> 0, repetitiveness |-> 0]

NoSem == [subjectivity |-> 0, conceptual_density |-> 0, avg_overlap |-> 0]

NoSty == [punct_variability |-> 0, upper_ratio |-> 0, phrase_repetitiveness |-> 0]

NoML ==
    [entropy |-> 0, transition_diversity |-> 0, char_transition_diversity |-> 0,
     max_repeat_ratio |-> 0]

\* None, 42, a list: not a string
NonStringText ==
    [StrText(0, 0, NoLex, NoSyn, NoSem, NoSty, NoML, {}) EXCEPT !.kind = "nonstring"]

\* ""
EmptyText == StrText(0, 0, NoLex, NoSyn, NoSem, NoSty, NoML, {})

\* "   ": three blanks
BlankText == StrText(3, 0, NoLex, NoSyn, NoSem, NoSty, NoML, {})

\* "Hi there": 8 characters
ShortText == StrText(8, 8, NoLex, NoSyn, NoSem, NoSty, NoML, {})

ClassNames == {AnalyzerName(k) : k \in REGISTRY}

\* weight maps a caller may pass to the constructor or to set_weights
WeightsByClassName ==
    [n \in ClassNames |->
        CASE n = "LexicalAnalyzer" -> 25
          [] n = "SyntacticAnalyzer" -> 25
          [] n = "SemanticAnalyzer" -> 20
          [] n = "StylisticAnalyzer" -> 15
          [] n = "MLAnalyzer" -> 15]

WeightsSyntacticOnly == [n \in ClassNames |-> IF n = "SyntacticAnalyzer" THEN 100 ELSE 0]

WeightsSynSem ==
    [n \in ClassNames |-> IF n \in {"SyntacticAnalyzer", "SemanticAnalyzer"} THEN 100 ELSE 0]

WeightsAllZero == [n \in ClassNames |-> 0]

\* a map that names an analyzer no roster holds
WeightsUnknownAnalyzer == [n \in {"LexicalAnalyzer", "NoSuchAnalyzer"} |-> 50]

WeightMaps ==
    {DEFAULT_WEIGHTS, WeightsByClassName, WeightsSyntacticOnly, WeightsSynSem, WeightsAllZero,
     WeightsUnknownAnalyzer}


\* the texts the operations of the state machine are called with: 60 characters

TextAI ==
    StrText(60, 60,
            [ttr |-> 100000, burstiness |-> -100000],
            [variability |-> 0, repetitiveness |-> 0],
            [subjectivity |-> 0, conceptual_density |-> 20000, avg_overlap |-> 900000],
            [punct_variability |-> 0, upper_ratio |-> 1000, phrase_repetitiveness |-> 50000],
            [entropy |-> 90000, transition_diversity |-> 30000,
             char_transition_diversity |-> 30000, max_repeat_ratio |-> 30000],
            {})

TextHuman ==
    StrText(60, 60,
            [ttr |-> 50000, burstiness |-> 20000],
            [variability |-> 50000, repetitiveness |-> 20000],
            [subjectivity |-> 20000, conceptual_density |-> 30000, avg_overlap |-> 100000],
            [punct_variability |-> 100000, upper_ratio |-> 5000, phrase_repetitiveness |-> 10000],
            [entropy |-> 70000, transition_diversity |-> 100000,
             char_transition_diversity |-> 70000, max_repeat_ratio |-> 5000],
            {})

TextMixed ==
    StrText(60, 60,
            [ttr |-> 33333, burstiness |-> 20000],
            [variability |-> 10000, repetitiveness |-> 60000],
            [subjectivity |-> 0, conceptual_density |-> 10000, avg_overlap |-> 100000],
            [punct_variability |-> 57735, upper_ratio |-> 1000, phrase_repetitiveness |-> 10000],
            [entropy |-> 81234, transition_diversity |-> 95000,
             char_transition_diversity |-> 61111, max_repeat_ratio |-> 20000],
            {})

\* texts on which some analyzers' computations throw
TextTwoFail == [TextMixed EXCEPT !.faults = {"semantic", "ml"}]

TextOneLeft == [TextAI EXCEPT !.faults = REGISTRY \ {"lexical"}]

TextAllFail == [TextAI EXCEPT !.faults = REGISTRY]

\* a valid text with an apostrophe: the validator's security screen rejects it
TextQuoted == [TextMixed EXCEPT !.security = TRUE, !.sample = 2]

Texts == {NonStringText, EmptyText, TextAI, TextHuman, TextOneLeft}

\* the texts the facade is called with
FacadeTexts == {NonStringText, EmptyText, ShortText, TextQuoted, TextAI}

\* the texts analyze_batch is called with
BatchTexts == {EmptyText, TextAI}

-----------------------------------------------------------------------------
(* Bounds *)

\* analyze calls that complete in one behaviour
MaxHistory == 2

\* length of the roster add_analyzer may grow it to
MaxRoster == 6

\* texts in one analyze_batch call
MaxBatch == 2

\* line 221: export_predictions writes prediction_history[-100:]
ExportWindow == 100

-----------------------------------------------------------------------------
(* Construction *)

\* the weights argument left out (None); "if weights" is false for it as for {}
NoWeights == [n \in {} |-> 0]

\* EnsembleEngine.__init__(weights)
EnsembleEngine_init(weights_arg) ==
    [analyzers |-> DEFAULT_ANALYZERS,
     weights |-> IF DOMAIN weights_arg # {} THEN weights_arg ELSE DEFAULT_WEIGHTS,
     prediction_history |-> <<>>]

\* an empty dict
EmptyDict == [k \in {} |-> 0]

\* a threshold: base in units of 1e-4, eps = 1 for a float that lies just
\* above that decimal value, 0 for the float of the decimal value itself
Threshold(base, eps) == [base |-> base, eps |-> eps]

\* score >= threshold, for a score that is a multiple of 1e-4
AtLeast(score, threshold) ==
    IF threshold.eps = 0 THEN score >= threshold.base ELSE score > threshold.base

\* threads that call engine.analyze on one engine
MaxCalls == 2

Threads == 1..MaxCalls

\* a thread that has not called analyze yet
IdleCall == [pc |-> "idle"]

\* no weight dictionaries and no further engines
NoObjects == [dicts |-> <<>>, engines |-> <<>>]

\* the facade (TextAnalyzer.__init__), its engine and a calibrator on that
\* engine (EnsembleCalibrator.__init__), as constructed
ConstructedFields(weights_arg) ==
    LET e == EnsembleEngine_init(weights_arg)
    IN  /\ analyzers = e.analyzers
        /\ weights = e.weights
        /\ prediction_history = e.prediction_history
        /\ is_calibrated = FALSE
        /\ calibration_threshold = Threshold(5000, 0)
        /\ cache = EmptyDict
        /\ stats = [total_analyses |-> 0]
        /\ best_parameters = EmptyDict
        /\ calibration_results = <<>>
        /\ last = [op |-> "init"]
        /\ completed = 0
        /\ calls = [t \in Threads |-> IdleCall]

\* the same, with no further engines
Constructed(weights_arg) ==
    /\ ConstructedFields(weights_arg)
    /\ objects = NoObjects

Init ==
    /\ Constructed(NoWeights)
    /\ inp = [mode |-> "none"]
    /\ pc = "run"

-----------------------------------------------------------------------------
(* Operations of the engine *)

\* a short name for each text the operations are called with
TextId(text) ==
    CASE text = NonStringText -> "non-string"
      [] text = EmptyText -> "empty"
      [] text = BlankText -> "blank"
      [] text = ShortText -> "short"
      [] text = TextQuoted -> "quoted"
      [] text = TextAI -> "ai"
      [] text = TextHuman -> "human"
      [] text = TextMixed -> "mixed"
      [] text = TextTwoFail -> "two-fail"
      [] text = TextOneLeft -> "one-left"
      [] text = TextAllFail -> "all-fail"
      [] OTHER -> "other"

NamedTexts ==
    {NonStringText, EmptyText, BlankText, ShortText, TextQuoted, TextAI, TextHuman,
     TextMixed, TextTwoFail, TextOneLeft, TextAllFail}

TextById(id) == CHOOSE text \in NamedTexts : TextId(text) = id

\* what a caller of engine.analyze(text) observes: of individual_results the
\* number of entries
AnalyzeOutcome(text, r) ==
    IF r.raised
    THEN [op |-> "analyze", text |-> TextId(text), raised |-> TRUE, error |-> r.error]
    ELSE [op |-> "analyze", text |-> TextId(text), raised |-> FALSE,
          ensemble_result |-> r.result.ensemble_result,
          overall_confidence |-> r.result.overall_confidence,
          individual_count |-> Cardinality(DOMAIN r.result.individual_results),
          analyzer_count |-> r.result.analyzer_count]

\* engine.analyze(text)
Analyze ==
    /\ pc = "run"
    /\ Len(prediction_history) < MaxHistory
    /\ \E text \in Texts :
          \E r \in {EnsembleEngine_analyze(analyzers, weights, prediction_history, text,
                                           completed + 1)} :
              /\ prediction_history' = r.history
              /\ completed' = IF r.raised THEN completed ELSE completed + 1
              /\ last' = AnalyzeOutcome(text, r)
    /\ UNCHANGED <<analyzers, weights, facade, calibrator, inp, calls, objects, pc>>

\* engine.set_weights(weights)
SetWeights ==
    /\ pc = "run"
    /\ \E w \in {WeightsByClassName} :
          /\ weights' = w
          /\ last' = [op |-> "set_weights"]
    /\ UNCHANGED <<analyzers, prediction_history, completed, facade, calibrator,
                   inp, calls, objects, pc>>

\* engine.add_analyzer(analyzer_name, weight): create_analyzer raises ValueError
\* for a name that is not in REGISTRY
AddAnalyzer ==
    /\ pc = "run"
    /\ \E analyzer_name \in {"ml", "neural"}, weight \in {20} :
          IF analyzer_name \in REGISTRY
          THEN /\ Len(analyzers) < MaxRoster
               /\ analyzers' = Append(analyzers, analyzer_name)
               /\ weights' = [n \in DOMAIN weights \cup {analyzer_name} |->
                                 IF n = analyzer_name THEN weight ELSE weights[n]]
               /\ last' = [op |-> "add_analyzer", returned |-> TRUE]
          ELSE /\ UNCHANGED <<analyzers, weights>>
               /\ last' = [op |-> "add_analyzer", returned |-> FALSE]
    /\ UNCHANGED <<prediction_history, completed, facade, calibrator, inp, calls, objects, pc>>

\* statistics.mean of integers in some unit, rounded to k more decimals
MeanRounded(xs, k) == RoundFrac(SumSeq(xs), Len(xs), k)

\* get_prediction_statistics(): values in 1e-3, prediction_variance in 1e-4;
\* statistics.variance raises StatisticsError on a history of one record
get_prediction_statistics(history) ==
    IF history = <<>> THEN [raised |-> FALSE, message |-> "No predictions yet"]
    ELSE LET confidences == [i \in DOMAIN history |-> history[i].overall_confidence]
             ai_probs == [i \in DOMAIN history |->
                              history[i].ensemble_result.ai_probability]
             n == Len(history)
             s == SumSeq(ai_probs)
             ss == SumSeq([i \in DOMAIN ai_probs |-> ai_probs[i] * ai_probs[i]])
         IN  IF n < 2 THEN [raised |-> TRUE, error |-> "StatisticsError"]
             ELSE [raised |-> FALSE,
                   total_predictions |-> n,
                   avg_confidence |-> MeanRounded(confidences, 0),
                   min_confidence |->
                       CHOOSE c \in {confidences[i] : i \in 1..n} :
                           \A i \in 1..n : c <= confidences[i],
                   max_confidence |->
                       CHOOSE c \in {confidences[i] : i \in 1..n} :
                           \A i \in 1..n : c >= confidences[i],
                   avg_ai_probability |-> RoundFrac(s, 10 * n, 0),
                   prediction_variance |-> RoundFrac(n * ss - s * s, 10000 * n * (n - 1), 0)]

\* engine.get_prediction_statistics()
GetPredictionStatistics ==
    /\ pc = "run"
    /\ last' = [op |-> "get_prediction_statistics",
                returned |-> get_prediction_statistics(prediction_history)]
    /\ UNCHANGED <<engine, completed, facade, calibrator, inp, calls, objects, pc>>

\* engine.export_predictions(): the data written to the file
ExportPredictions ==
    /\ pc = "run"
    /\ \E st \in {get_prediction_statistics(prediction_history)} :
          LET n == Len(prediction_history)
          IN  last' = IF st.raised
                      THEN [op |-> "export_predictions", raised |-> TRUE,
                            error |-> st.error]
                      ELSE [op |-> "export_predictions", raised |-> FALSE,
                            analyzer_count |-> Len(analyzers),
                            weights |-> weights,
                            statistics |-> st,
                            history |-> SubSeq(prediction_history,
                                               Max(1, n - ExportWindow + 1), n)]
    /\ UNCHANGED <<engine, completed, facade, calibrator, inp, calls, objects, pc>>

-----------------------------------------------------------------------------
(* core/text_analyzer.py: the facade.  Of an AnalysisResult the model keeps *)
(* classification, the two probabilities and ensemble_result; confidence,   *)
(* certainty_level and recommendation come from a standard deviation, and   *)
(* processing_time_ms, avg_processing_time and the timestamps from the      *)
(* wall clock.  The validator's validation_log is write-only.               *)

\* _get_cache_key(text): len() of a non-string raises TypeError
CacheKeyRaises(text) == text.kind # "str"

_get_cache_key(text) == <<text.len, text.sample>>

\* InputValidator.validate_text(text)['valid']: _validate_base reports an
\* error for a non-string, an empty text, more than 50000 characters or more
\* than 5000 words (fewer than 10 words is a warning only), _validate_security
\* for control characters, SQL-like and XSS-like patterns
validate_text(text) ==
    /\ text.kind = "str"
    /\ text.len # 0
    /\ ~(text.len > 50000)
    /\ ~(text.words > 5000)
    /\ ~text.security

\* "if self.cache": an empty dict is false
Truthy(dict) == DOMAIN dict # {}

\* TextAnalyzer.analyze(text) in the state st (the fields of the facade and
\* of its engine): the state afterwards and what the caller observes
TextAnalyzer_analyze(st, text) ==
    LET fail(error) == [st |-> st, raised |-> TRUE, error |-> error]
    IN  IF CacheKeyRaises(text) THEN fail("TypeError")
        ELSE LET cache_key == _get_cache_key(text)
             IN  IF Truthy(st.cache) /\ cache_key \in DOMAIN st.cache
                 THEN [st |-> st, raised |-> FALSE, result |-> st.cache[cache_key]]
                 ELSE IF ~validate_text(text) THEN fail("ValueError")
                 ELSE LET Result(er) ==
                              [classification |->
                                   IF st.is_calibrated
                                   THEN IF AtLeast(er.ai_probability,
                                                   st.calibration_threshold)
                                        THEN "Probabilmente AI"
                                        ELSE "Probabilmente Umano"
                                   ELSE er.classification,
                               ai_probability |-> er.ai_probability,
                               human_probability |-> er.human_probability,
                               ensemble_result |-> er]
                          Stored(history, result) ==
                              [st |-> [st EXCEPT
                                         !.prediction_history = history,
                                         !.completed = @ + 1,
                                         !.stats = [total_analyses |->
                                                       @.total_analyses + 1],
                                         !.cache =
                                             IF Truthy(@)
                                             THEN [k \in DOMAIN @ \cup {cache_key} |->
                                                      IF k = cache_key THEN result
                                                      ELSE @[k]]
                                             ELSE @],
                               raised |-> FALSE,
                               result |-> result]
                          Analyzed(r) ==
                              IF r.raised THEN fail(r.error)
                              ELSE Stored(r.history, Result(r.result.ensemble_result))
                      IN  Analyzed(EnsembleEngine_analyze(st.analyzers, st.weights,
                                                          st.prediction_history, text,
                                                          st.completed + 1))

\* the result analyze_batch stores for a text on which analyze raised
ErrorResult ==
    [classification |-> "Errore", ai_probability |-> 5000, human_probability |-> 5000,
     ensemble_result |-> EmptyDict]

RECURSIVE TextAnalyzer_analyze_batch(_, _)
\* TextAnalyzer.analyze_batch(texts): the state afterwards and the results
TextAnalyzer_analyze_batch(st, texts) ==
    IF texts = <<>> THEN [st |-> st, results |-> <<>>]
    ELSE LET Collected(r, rest) ==
                 [st |-> rest.st,
                  results |-> <<IF r.raised THEN ErrorResult ELSE r.result>>
                              \o rest.results]
             Continued(r) == Collected(r, TextAnalyzer_analyze_batch(r.st, Tail(texts)))
         IN  Continued(TextAnalyzer_analyze(st, Head(texts)))

\* the fields of the facade and of its engine
State ==
    [analyzers |-> analyzers, weights |-> weights,
     prediction_history |-> prediction_history, completed |-> completed,
     is_calibrated |-> is_calibrated, calibration_threshold |-> calibration_threshold,
     cache |-> cache, stats |-> stats]

\* the fields after an operation that leaves the roster, the weights and the
\* calibration of the facade alone
Becomes(st) ==
    /\ prediction_history' = st.prediction_history
    /\ completed' = st.completed
    /\ cache' = st.cache
    /\ stats' = st.stats
    /\ UNCHANGED <<analyzers, weights, is_calibrated, calibration_threshold>>

\* facade.analyze(text)
FacadeAnalyze ==
    /\ pc = "run"
    /\ Len(prediction_history) < MaxHistory
    /\ \E text \in FacadeTexts :
          \E r \in {TextAnalyzer_analyze(State, text)} :
              /\ Becomes(r.st)
              /\ last' = IF r.raised
                         THEN [op |-> "facade_analyze", text |-> TextId(text),
                               raised |-> TRUE, error |-> r.error]
                         ELSE [op |-> "facade_analyze", text |-> TextId(text),
                               raised |-> FALSE, result |-> r.result]
    /\ UNCHANGED <<calibrator, inp, calls, objects, pc>>

\* facade.analyze_batch(texts)
AnalyzeBatch ==
    /\ pc = "run"
    /\ \E n \in 0..MaxBatch :
          /\ Len(prediction_history) + n <= MaxHistory
          /\ \E texts \in [1..n -> BatchTexts] :
                \E r \in {TextAnalyzer_analyze_batch(State, texts)} :
                    /\ Becomes(r.st)
                    /\ last' = [op |-> "analyze_batch",
                                texts |-> [i \in 1..n |-> TextId(texts[i])],
                                results |-> r.results]
    /\ UNCHANGED <<calibrator, inp, calls, objects, pc>>

\* a calibrate whose import succeeds: lines 232-250 are reached
TextAnalyzer_calibrate_Succeeding(st, dataset) ==
    [st |-> [st EXCEPT !.is_calibrated = TRUE,
                       !.calibration_threshold = Threshold(4500, 0)],
     raised |-> FALSE,
     result |-> [success |-> TRUE, threshold |-> Threshold(4500, 0),
                 f1_score |-> <<1, 1>>, roc_auc |-> <<1, 1>>]]

TextAnalyzer_calibrate_Uncaught(st, dataset) ==
    [st |-> st, raised |-> TRUE, error |-> "ImportError"]

\* TextAnalyzer.calibrate(dataset_path): the first statement of the try block
\* imports utils.calibration_engine; the package utils holds calibrator,
\* confidence_metrics, data_loader, evaluator, input_validator and
\* roc_analyzer and no such module, so the import raises ImportError and the
\* rest of the block (lines 232-250, which would set is_calibrated and
\* calibration_threshold) is not reached; except Exception returns the
\* failure record and the facade is left as it was
TextAnalyzer_calibrate(st, dataset) ==
    LET Caught(error) ==
            [st |-> st, raised |-> FALSE,
             result |-> [success |-> FALSE, error |-> error]]
    IN  Caught("ImportError")

\* the datasets facade.calibrate is called with
FacadeDatasets == {"missing", "unparseable", "all-human", "valid"}

\* facade.calibrate(dataset_path)
Calibrate ==
    /\ pc = "run"
    /\ \E dataset \in FacadeDatasets :
          \E r \in {TextAnalyzer_calibrate(State, dataset)} :
              /\ is_calibrated' = r.st.is_calibrated
              /\ calibration_threshold' = r.st.calibration_threshold
              /\ prediction_history' = r.st.prediction_history
              /\ last' = IF r.raised
                         THEN [op |-> "calibrate", raised |-> TRUE, error |-> r.error]
                         ELSE [op |-> "calibrate", raised |-> FALSE, result |-> r.result]
    /\ UNCHANGED <<analyzers, weights, completed, cache, stats, calibrator,
                   inp, calls, objects, pc>>

\* facade.clear_cache()
ClearCache ==
    /\ pc = "run"
    /\ cache' = IF Truthy(cache) THEN EmptyDict ELSE cache
    /\ last' = [op |-> "clear_cache"]
    /\ UNCHANGED <<engine, completed, is_calibrated, calibration_threshold, stats,
                   calibrator, inp, calls, objects, pc>>

\* facade.get_stats()
GetStats ==
    /\ pc = "run"
    /\ last' = [op |-> "get_stats",
                total_analyses |-> stats.total_analyses,
                is_calibrated |-> is_calibrated,
                calibration_threshold |-> calibration_threshold,
                cache_size |-> IF Truthy(cache) THEN Cardinality(DOMAIN cache) ELSE 0]
    /\ UNCHANGED <<engine, completed, facade, calibrator, inp, calls, objects, pc>>

-----------------------------------------------------------------------------
(* utils/calibrator.py.  A dataset is the list the JSON file holds, or      *)
(* Unreadable for a path that cannot be opened or parsed.  A sample is a    *)
(* record [text, label, missing]: missing names a key the item lacks        *)
(* ("none" when it has text, label, id and length).  Of a CalibrationResult *)
(* the model keeps the threshold, F1, accuracy and the confusion matrix;    *)
(* the areas under the ROC and precision-recall curves are left out.        *)

Dataset(items) == [readable |-> TRUE, items |-> items]

Unreadable == [readable |-> FALSE, items |-> <<>>]

Sample(text, label, missing) == [text |-> text, label |-> label, missing |-> missing]

\* np.arange(0.1, 0.9, 0.05): 16 floats start + i * delta with
\* delta = (0.1 + 0.05) - 0.1 = 0.05000000000000002, so that every element
\* but the first lies just above its decimal value 0.15, 0.20, ..., 0.85
GridThresholds == [i \in 1..16 |-> Threshold(1000 + 500 * (i - 1), IF i = 1 THEN 0 ELSE 1)]

\* the first element roc_curve puts before the scores (inf, or the largest
\* score + 1 in older scikit-learn): above every probability the engine returns
AboveAll == Threshold(10000, 1)

Confusion_Exclusive(y_true, y_scores, threshold) ==
    LET count(label, positive) ==
            Cardinality({i \in DOMAIN y_true :
                            /\ y_true[i] = label
                            /\ (y_scores[i] > threshold.base) = positive})
    IN  [true_positive |-> count(1, TRUE), false_positive |-> count(0, TRUE),
         true_negative |-> count(0, FALSE), false_negative |-> count(1, FALSE)]

\* tp, fp, tn, fn of the binarization  score >= threshold
Confusion(y_true, y_scores, threshold) ==
    LET count(label, positive) ==
            Cardinality({i \in DOMAIN y_true :
                            /\ y_true[i] = label
                            /\ AtLeast(y_scores[i], threshold) = positive})
    IN  [true_positive |-> count(1, TRUE), false_positive |-> count(0, TRUE),
         true_negative |-> count(0, FALSE), false_negative |-> count(1, FALSE)]

\* sklearn f1_score as a fraction: 2tp / (2tp + fp + fn), 0.0 when tp = 0
F1(cm) ==
    IF cm.true_positive = 0 THEN <<0, 1>>
    ELSE Reduce(<<2 * cm.true_positive,
                  2 * cm.true_positive + cm.false_positive + cm.false_negative>>)

\* sklearn accuracy_score as a fraction, for at least one sample
Accuracy(cm) ==
    Reduce(<<cm.true_positive + cm.true_negative,
             cm.true_positive + cm.true_negative + cm.false_positive + cm.false_negative>>)

\* a < b for fractions <<num, den>>
FracLess(a, b) == a[1] * b[2] < b[1] * a[2]

Improves_OrEqual(f1, best_f1) == ~FracLess(f1, best_f1)

\* line 125, if f1 > best_f1: a threshold replaces the best one only with a
\* strictly greater F1
Improves(f1, best_f1) == FracLess(best_f1, f1)

RECURSIVE GridSearchFrom(_, _, _, _)
\* the loop of _grid_search_calibration from threshold i on: best is
\* [f1, index] with index 0 while best_thresholds is still {}
GridSearchFrom(i, y_true, y_scores, best) ==
    IF i > Len(GridThresholds) THEN best
    ELSE LET Better(f1) == IF Improves(f1, best.f1) THEN [f1 |-> f1, index |-> i]
                            ELSE best
         IN  GridSearchFrom(i + 1, y_true, y_scores,
                            Better(F1(Confusion(y_true, y_scores, GridThresholds[i]))))

\* _grid_search_calibration(predictions): roc_curve raises on a dataset
\* without samples, and best_thresholds['ai_threshold'] raises KeyError when
\* no threshold reached an F1 above 0
_grid_search_calibration(y_true, y_scores) ==
    LET Result(best, threshold, cm) ==
            [raised |-> FALSE,
             result |-> [best_thresholds |-> [ai_threshold |-> threshold],
                         best_f1_score |-> best.f1,
                         best_accuracy |-> Accuracy(cm),
                         confusion_matrix |-> cm]]
        Searched(best) ==
            IF best.index = 0 THEN [raised |-> TRUE, error |-> "KeyError"]
            ELSE Result(best, GridThresholds[best.index],
                        Confusion(y_true, y_scores, GridThresholds[best.index]))
    IN  IF y_true = <<>> THEN [raised |-> TRUE, error |-> "IndexError"]
        ELSE Searched(GridSearchFrom(1, y_true, y_scores,
                                     [f1 |-> <<0, 1>>, index |-> 0]))

\* the distinct scores, descending
RECURSIVE Descending(_)
Descending(scores) ==
    IF scores = {} THEN <<>>
    ELSE LET m == CHOOSE x \in scores : \A y \in scores : y <= x
         IN  <<Threshold(m, 0)>> \o Descending(scores \ {m})

\* the elements of s at the positions in keep, in order
SelectAt(s, keep) ==
    LET F[i \in 0..Len(s)] ==
            IF i = 0 THEN <<>>
            ELSE IF i \in keep THEN Append(F[i - 1], s[i]) ELSE F[i - 1]
    IN  F[Len(s)]

\* the thresholds of roc_curve(y_true, y_scores): the distinct scores in
\* descending order with their counts fps and tps; drop_intermediate keeps the
\* first, the last and every point where the second difference of fps or of
\* tps is not zero; AboveAll is put in front
RocThresholds(y_true, y_scores) ==
    LET Dropped(distinct, fps, tps) ==
            SelectAt(distinct,
                     {i \in DOMAIN distinct :
                         \/ i = 1
                         \/ i = Len(distinct)
                         \/ fps[i + 1] - 2 * fps[i] + fps[i - 1] # 0
                         \/ tps[i + 1] - 2 * tps[i] + tps[i - 1] # 0})
        Counted(distinct) ==
            Dropped(distinct,
                    [i \in DOMAIN distinct |->
                        Confusion(y_true, y_scores, distinct[i]).false_positive],
                    [i \in DOMAIN distinct |->
                        Confusion(y_true, y_scores, distinct[i]).true_positive])
    IN  <<AboveAll>> \o Counted(Descending({y_scores[i] : i \in DOMAIN y_scores}))

YoudenJ_Sum(cm, P, N) == cm.true_positive * N + cm.false_positive * P

\* line 191, j_scores = tpr - fpr = tp / P - fp / N, scaled by P * N
YoudenJ(cm, P, N) == cm.true_positive * N - cm.false_positive * P

\* tn / (tn + fp) and tp / (tp + fn) of detailed_metrics, 0.0 for an empty class
Specificity(cm) ==
    IF cm.true_negative + cm.false_positive > 0
    THEN Reduce(<<cm.true_negative, cm.true_negative + cm.false_positive>>)
    ELSE <<0, 1>>

Sensitivity(cm) ==
    IF cm.true_positive + cm.false_negative > 0
    THEN Reduce(<<cm.true_positive, cm.true_positive + cm.false_negative>>)
    ELSE <<0, 1>>

\* _roc_optimization(predictions): Youden's J = tpr - fpr is tp/P - fp/N,
\* compared as tp * N - fp * P; with no positive or no negative sample every
\* J is nan and np.argmax returns index 0; np.argmax returns the first
\* maximum.  roc_curve raises on a dataset without samples.
_roc_optimization(y_true, y_scores) ==
    IF y_true = <<>> THEN [raised |-> TRUE, error |-> "IndexError"]
    ELSE LET Result(optimal_threshold, cm) ==
                 [raised |-> FALSE,
                  result |-> [best_thresholds |-> [ai_threshold |-> optimal_threshold],
                              best_f1_score |-> F1(cm),
                              best_accuracy |-> Accuracy(cm),
                              confusion_matrix |-> cm,
                              detailed_metrics |->
                                  [specificity |-> Specificity(cm),
                                   sensitivity |-> Sensitivity(cm)]]]
             Chosen(optimal_threshold) ==
                 Result(optimal_threshold,
                        Confusion(y_true, y_scores, optimal_threshold))
             Youden(thresholds, P, N) ==
                 LET j == [k \in DOMAIN thresholds |->
                              YoudenJ(Confusion(y_true, y_scores, thresholds[k]), P, N)]
                     ArgMax(js) == CHOOSE k \in DOMAIN js :
                                       /\ \A l \in DOMAIN js : js[l] <= js[k]
                                       /\ \A l \in 1..(k - 1) : js[l] < js[k]
                 IN  Chosen(thresholds[IF P = 0 \/ N = 0 THEN 1 ELSE ArgMax(j)])
             Counted(P) == Youden(RocThresholds(y_true, y_scores), P, Len(y_true) - P)
         IN  Counted(Cardinality({i \in DOMAIN y_true : y_true[i] = 1}))

RECURSIVE AnalyzeDataset(_, _, _)
\* the loop of calibrate_on_dataset over the items: the engine state
\* afterwards, the predictions collected, and the error that ended it
AnalyzeDataset(st, items, predictions) ==
    IF items = <<>> THEN [st |-> st, raised |-> FALSE, predictions |-> predictions]
    ELSE LET item == Head(items)
             Collected(analysed, ai_probability) ==
                 IF item.missing \in {"id", "length"}
                 THEN [st |-> analysed, raised |-> TRUE, error |-> "KeyError"]
                 ELSE AnalyzeDataset(
                          analysed, Tail(items),
                          Append(predictions,
                                 [true_label |-> IF item.label = "ai" THEN 1 ELSE 0,
                                  ai_probability |-> ai_probability]))
             Analyzed(r) ==
                 IF r.raised THEN [st |-> st, raised |-> TRUE, error |-> r.error]
                 ELSE Collected([st EXCEPT !.prediction_history = r.history,
                                           !.completed = @ + 1],
                                r.result.ensemble_result.ai_probability)
         IN  IF item.missing = "text"
             THEN [st |-> st, raised |-> TRUE, error |-> "KeyError"]
             ELSE Analyzed(EnsembleEngine_analyze(st.analyzers, st.weights,
                                                  st.prediction_history, item.text,
                                                  st.completed + 1))

\* calibrate_on_dataset(dataset_path, method): the engine state afterwards
\* and either the error raised or the CalibrationResult
calibrate_on_dataset(st, dataset, method) ==
    IF ~dataset.readable THEN [st |-> st, raised |-> TRUE, error |-> "OSError"]
    ELSE IF \E i \in DOMAIN dataset.items : dataset.items[i].missing = "label"
    THEN [st |-> st, raised |-> TRUE, error |-> "KeyError"]
    ELSE LET Calibrated(a, c) ==
                 IF c.raised THEN [st |-> a.st, raised |-> TRUE, error |-> c.error]
                 ELSE [st |-> a.st, raised |-> FALSE, result |-> c.result]
             Optimized(a, y_true, y_scores) ==
                 Calibrated(a, IF method = "grid_search"
                               THEN _grid_search_calibration(y_true, y_scores)
                               ELSE _roc_optimization(y_true, y_scores))
             Analyzed(a) ==
                 IF a.raised THEN a
                 ELSE IF method \notin {"grid_search", "roc_optimization"}
                 THEN [st |-> a.st, raised |-> TRUE, error |-> "ValueError"]
                 ELSE Optimized(a,
                                [i \in DOMAIN a.predictions |->
                                    a.predictions[i].true_label],
                                [i \in DOMAIN a.predictions |->
                                    a.predictions[i].ai_probability])
         IN  Analyzed(AnalyzeDataset(st, dataset.items, <<>>))

apply_calibration_Overwriting(st, parameters, text) ==
    IF ~Truthy(parameters) THEN [st |-> st, raised |-> TRUE, error |-> "ValueError"]
    ELSE LET calibrated_threshold == Get(parameters, "ai_threshold", Threshold(5000, 0))
             Result(er, is_ai, verdict) ==
                 [ensemble_result |-> [er EXCEPT !.classification = verdict],
                  calibration |->
                      [applied |-> TRUE,
                       calibrated_threshold |-> calibrated_threshold,
                       original_classification |-> verdict,
                       calibrated_classification |-> verdict,
                       calibrated_confidence |->
                           IF is_ai THEN er.ai_probability
                           ELSE 10000 - er.ai_probability,
                       calibration_improvement |-> Abs(er.ai_probability - 5000)]]
             Verdict(er, is_ai) ==
                 Result(er, is_ai,
                        IF is_ai THEN "AI (Calibrated)" ELSE "Human (Calibrated)")
             Compared(er) ==
                 Verdict(er, AtLeast(er.ai_probability, calibrated_threshold))
             Analyzed(r) ==
                 IF r.raised THEN [st |-> st, raised |-> TRUE, error |-> r.error]
                 ELSE [st |-> [st EXCEPT !.prediction_history = r.history,
                                         !.completed = @ + 1],
                       raised |-> FALSE,
                       result |-> Compared(r.result.ensemble_result)]
         IN  Analyzed(EnsembleEngine_analyze(st.analyzers, st.weights,
                                             st.prediction_history, text,
                                             st.completed + 1))

\* apply_calibration(text): the engine state afterwards and either the
\* error raised or the result with its 'calibration' entry
apply_calibration(st, parameters, text) ==
    IF ~Truthy(parameters) THEN [st |-> st, raised |-> TRUE, error |-> "ValueError"]
    ELSE LET calibrated_threshold == Get(parameters, "ai_threshold", Threshold(5000, 0))
             Result(er, is_ai) ==
                 [ensemble_result |-> er,
                  calibration |->
                      [applied |-> TRUE,
                       calibrated_threshold |-> calibrated_threshold,
                       original_classification |-> er.classification,
                       calibrated_classification |->
                           IF is_ai THEN "AI (Calibrated)" ELSE "Human (Calibrated)",
                       calibrated_confidence |->
                           IF is_ai THEN er.ai_probability
                           ELSE 10000 - er.ai_probability,
                       calibration_improvement |-> Abs(er.ai_probability - 5000)]]
             Compared(er) ==
                 Result(er, AtLeast(er.ai_probability, calibrated_threshold))
             Analyzed(r) ==
                 IF r.raised THEN [st |-> st, raised |-> TRUE, error |-> r.error]
                 ELSE [st |-> [st EXCEPT !.prediction_history = r.history,
                                         !.completed = @ + 1],
                       raised |-> FALSE,
                       result |-> Compared(r.result.ensemble_result)]
         IN  Analyzed(EnsembleEngine_analyze(st.analyzers, st.weights,
                                             st.prediction_history, text,
                                             st.completed + 1))

\* np.random.seed(42); np.random.permutation(n), as positions 1..n
Permutation42(n) ==
    CASE n = 0 -> <<>>
      [] n = 1 -> <<1>>
      [] n = 2 -> <<2, 1>>
      [] n = 3 -> <<1, 2, 3>>
      [] n = 4 -> <<2, 4, 1, 3>>
      [] n = 5 -> <<2, 5, 3, 1, 4>>

RECURSIVE AnalyzeTestSet(_, _, _)
\* the loop of cross_validate over the test set of one fold
AnalyzeTestSet(st, items, predictions) ==
    IF items = <<>> THEN [st |-> st, raised |-> FALSE, predictions |-> predictions]
    ELSE LET item == Head(items)
             Collected(analysed, ai_probability) ==
                 IF item.missing = "label"
                 THEN [st |-> analysed, raised |-> TRUE, error |-> "KeyError"]
                 ELSE AnalyzeTestSet(
                          analysed, Tail(items),
                          Append(predictions,
                                 [true_label |-> IF item.label = "ai" THEN 1 ELSE 0,
                                  ai_probability |-> ai_probability]))
             Analyzed(r) ==
                 IF r.raised THEN [st |-> st, raised |-> TRUE, error |-> r.error]
                 ELSE Collected([st EXCEPT !.prediction_history = r.history,
                                           !.completed = @ + 1],
                                r.result.ensemble_result.ai_probability)
         IN  IF item.missing = "text"
             THEN [st |-> st, raised |-> TRUE, error |-> "KeyError"]
             ELSE Analyzed(EnsembleEngine_analyze(st.analyzers, st.weights,
                                                  st.prediction_history, item.text,
                                                  st.completed + 1))

FoldThreshold_Default(parameters) == Threshold(5000, 0)

\* line 305: the stored ai_threshold, 0.5 while best_parameters is empty
FoldThreshold(parameters) ==
    IF Truthy(parameters) THEN Get(parameters, "ai_threshold", Threshold(5000, 0))
    ELSE Threshold(5000, 0)

RECURSIVE CrossValidateFrom(_, _, _, _, _, _, _)
\* the folds of cross_validate from fold on (fold counts from 0): roc_curve
\* raises on a test set without samples.  Next to its scores a fold records
\* its locals threshold and test_indices.
CrossValidateFrom(st, parameters, items, indices, folds, fold, scores) ==
    IF fold >= folds THEN [st |-> st, raised |-> FALSE, per_fold_scores |-> scores]
    ELSE LET n == Len(items)
             fold_size == n \div folds
             start == fold * fold_size
             end == IF fold < folds - 1 THEN start + fold_size ELSE n
             threshold == FoldThreshold(parameters)
             test_indices == SubSeq(indices, start + 1, end)
             Scored(a, cm) ==
                 CrossValidateFrom(a.st, parameters, items, indices, folds, fold + 1,
                                   Append(scores,
                                          [f1 |-> F1(cm), accuracy |-> Accuracy(cm),
                                           threshold |-> threshold,
                                           test_indices |-> test_indices]))
             Predicted(a, y_true, y_scores) ==
                 IF y_true = <<>>
                 THEN [st |-> a.st, raised |-> TRUE, error |-> "IndexError"]
                 ELSE Scored(a, Confusion(y_true, y_scores, threshold))
             Analyzed(a) ==
                 IF a.raised THEN a
                 ELSE Predicted(a,
                                [i \in DOMAIN a.predictions |->
                                    a.predictions[i].true_label],
                                [i \in DOMAIN a.predictions |->
                                    a.predictions[i].ai_probability])
         IN  Analyzed(AnalyzeTestSet(st,
                                     [i \in DOMAIN test_indices |-> items[test_indices[i]]],
                                     <<>>))

\* cross_validate(dataset_path, folds)
cross_validate(st, parameters, dataset, folds) ==
    IF ~dataset.readable THEN [st |-> st, raised |-> TRUE, error |-> "OSError"]
    ELSE CrossValidateFrom(st, parameters, dataset.items,
                           Permutation42(Len(dataset.items)), folds, 0, <<>>)

\* the samples and the datasets the calibrator is called with
SampleAI == Sample(TextAI, "ai", "none")

SampleHuman == Sample(TextHuman, "human", "none")

DatasetEmpty == Dataset(<<>>)

DatasetOneAI == Dataset(<<SampleAI>>)

DatasetBoth == Dataset(<<SampleAI, SampleHuman>>)

DatasetAllHuman == Dataset(<<SampleHuman, Sample(EmptyText, "human", "none")>>)

DatasetNoId == Dataset(<<SampleHuman, Sample(TextAI, "ai", "id")>>)

DatasetNoText == Dataset(<<SampleAI, Sample(TextHuman, "human", "text")>>)

DatasetNoLabel == Dataset(<<SampleAI, Sample(TextAI, "human", "label")>>)

DatasetOneLeft == Dataset(<<SampleHuman, Sample(TextOneLeft, "ai", "none")>>)

DatasetThree == Dataset(<<SampleHuman, SampleAI, Sample(ShortText, "ai", "none")>>)

\* samples in a dataset
MaxDataset == 2

\* successful calibrations in one behaviour
MaxCalibrations == 1

\* records in prediction_history when only the calibrator and its engine run
MaxCalibratorHistory == 4

\* the length prediction_history is capped at by the calibrator's operations
HistoryBound == IF inp.mode = "calibrator" THEN MaxCalibratorHistory ELSE MaxHistory

\* the calls of calibrate_on_dataset: <<dataset, method>>
CalibrationCalls ==
    {c \in {<<Unreadable, "grid_search">>,
            <<DatasetEmpty, "grid_search">>,
            <<DatasetBoth, "grid_search">>,
            <<DatasetBoth, "roc_optimization">>,
            <<DatasetBoth, "bayes">>,
            <<DatasetAllHuman, "grid_search">>,
            <<DatasetAllHuman, "roc_optimization">>,
            <<DatasetNoId, "grid_search">>,
            <<DatasetNoText, "roc_optimization">>,
            <<DatasetNoLabel, "grid_search">>,
            <<DatasetOneLeft, "grid_search">>,
            <<DatasetThree, "grid_search">>,
            <<DatasetThree, "roc_optimization">>} :
        Len(c[1].items) <= MaxDataset}

\* next to the facade the calibrator is called with its default method on
\* datasets of up to two samples; all calls, and one more, when only the
\* calibrator and its engine run
CalibratorCalls ==
    IF inp.mode = "calibrator"
    THEN CalibrationCalls \cup {<<DatasetOneAI, "grid_search">>}
    ELSE {c \in CalibrationCalls : c[2] # "roc_optimization" /\ c[1] # DatasetThree}

\* the calls of cross_validate: <<dataset, folds>>
CrossValidationCalls ==
    {c \in {<<Unreadable, 5>>,
            <<DatasetBoth, 2>>,
            <<DatasetBoth, 5>>,
            <<DatasetNoText, 2>>,
            <<DatasetNoLabel, 1>>,
            <<DatasetOneLeft, 2>>,
            <<DatasetThree, 2>>,
            <<DatasetThree, 3>>} :
        Len(c[1].items) <= MaxDataset}

\* the texts apply_calibration is called with
CalibratedTexts == {EmptyText, TextAI, TextOneLeft}

\* the calibrator works on the engine: the fields of the facade are left alone
EngineBecomes(st) ==
    /\ prediction_history' = st.prediction_history
    /\ completed' = st.completed
    /\ UNCHANGED <<analyzers, weights, facade>>

\* calibrator.calibrate_on_dataset(dataset_path, method)
CalibrateOnDataset ==
    /\ pc = "run"
    /\ Len(calibration_results) < MaxCalibrations
    /\ \E call \in CalibratorCalls :
          /\ Len(prediction_history) + Len(call[1].items) <= HistoryBound
          /\ \E r \in {calibrate_on_dataset(State, call[1], call[2])} :
                /\ EngineBecomes(r.st)
                /\ IF r.raised
                   THEN /\ UNCHANGED calibrator
                        /\ last' = [op |-> "calibrate_on_dataset", raised |-> TRUE,
                                    error |-> r.error]
                   ELSE /\ calibration_results' = Append(calibration_results, r.result)
                        /\ best_parameters' = r.result.best_thresholds
                        /\ last' = [op |-> "calibrate_on_dataset", raised |-> FALSE,
                                    result |-> r.result]
    /\ UNCHANGED <<inp, calls, objects, pc>>

\* calibrator.apply_calibration(text)
ApplyCalibration ==
    /\ pc = "run"
    /\ Len(prediction_history) < HistoryBound
    /\ \E text \in CalibratedTexts :
          \E r \in {apply_calibration(State, best_parameters, text)} :
              /\ EngineBecomes(r.st)
              /\ last' = IF r.raised
                         THEN [op |-> "apply_calibration", text |-> TextId(text),
                               raised |-> TRUE, error |-> r.error]
                         ELSE [op |-> "apply_calibration", text |-> TextId(text),
                               raised |-> FALSE, result |-> r.result]
    /\ UNCHANGED <<calibrator, inp, calls, objects, pc>>

\* calibrator.cross_validate(dataset_path, folds)
CrossValidate ==
    /\ pc = "run"
    /\ \E call \in CrossValidationCalls :
          /\ Len(prediction_history) + Len(call[1].items) <= HistoryBound
          /\ \E r \in {cross_validate(State, best_parameters, call[1], call[2])} :
                /\ EngineBecomes(r.st)
                /\ last' = IF r.raised
                           THEN [op |-> "cross_validate", raised |-> TRUE,
                                 error |-> r.error]
                           ELSE [op |-> "cross_validate", raised |-> FALSE,
                                 samples |-> Len(call[1].items),
                                 per_fold_scores |-> r.per_fold_scores]
    /\ UNCHANGED <<calibrator, inp, calls, objects, pc>>

\* calibrator.export_calibration_report(): the report written to the file
ExportCalibrationReport ==
    /\ pc = "run"
    /\ last' = IF calibration_results = <<>>
               THEN [op |-> "export_calibration_report", raised |-> TRUE,
                     error |-> "ValueError"]
               ELSE [op |-> "export_calibration_report", raised |-> FALSE,
                     total_calibrations |-> Len(calibration_results),
                     best_result |-> calibration_results[Len(calibration_results)]]
    /\ UNCHANGED <<engine, completed, facade, calibrator, inp, calls, objects, pc>>

Next ==
    \/ Analyze \/ SetWeights \/ AddAnalyzer \/ GetPredictionStatistics \/ ExportPredictions
    \/ FacadeAnalyze \/ AnalyzeBatch \/ Calibrate \/ ClearCache \/ GetStats
    \/ CalibrateOnDataset \/ ApplyCalibration \/ CrossValidate \/ ExportCalibrationReport

Spec == Init /\ [][Next]_vars

\* a calibrator and the engine it was constructed on, without the facade
InitCalibrator ==
    /\ Constructed(NoWeights)
    /\ inp = [mode |-> "calibrator"]
    /\ pc = "run"

NextCalibrator ==
    \/ Analyze \/ SetWeights
    \/ CalibrateOnDataset \/ ApplyCalibration \/ CrossValidate \/ ExportCalibrationReport

SpecCalibrator == InitCalibrator /\ [][NextCalibrator]_vars

-----------------------------------------------------------------------------
(* Two threads call engine.analyze(text) on one engine.  A call keeps its   *)
(* position and its local variables in calls[t]; the roster, the weights    *)
(* and prediction_history are the engine's.  A step is one iteration of the *)
(* loop over self.analyzers, the aggregation, the append to the history, or *)
(* the return.                                                              *)

\* the texts the threads analyse
ConcurrentTexts == {TextAI, TextHuman, TextOneLeft, TextAllFail}

\* lines 59-60: individual_results = {}; predictions = []
CallStarted(text) ==
    [pc |-> "loop", text |-> text, i |-> 1,
     individual_results |-> EmptyDict, predictions |-> <<>>]

\* lines 63-89: one iteration of the loop, for the analyzer k
AnalyzerStep(call, k) ==
    LET Prediction(metrics, p) ==
            [analyzer |-> AnalyzerName(k), ai_prob |-> p[1], human_prob |-> p[2],
             confidence |-> Get(metrics, "confidence", 5000)]
        Predicted(metrics) == Prediction(metrics, analyzer_predict(k, metrics))
    IN  [call EXCEPT
            !.i = @ + 1,
            !.individual_results =
                [n \in DOMAIN @ \cup {AnalyzerName(k)} |->
                    IF n = AnalyzerName(k) THEN IndividualResult(k, call.text) ELSE @[n]],
            !.predictions =
                IF AnalyzerRaises(k, call.text) THEN @
                ELSE Append(@, Predicted(analyzer_analyze(k, call.text)))]

\* lines 92-95: the aggregation and the overall confidence, or the
\* StatisticsError of statistics.variance that ends the call
AggregateStep(call, w) ==
    IF AggregateRaises(call.predictions)
    THEN [pc |-> "raised", text |-> call.text, error |-> "StatisticsError"]
    ELSE [pc |-> "save", text |-> call.text,
          individual_results |-> call.individual_results,
          ensemble_result |-> _aggregate_predictions(w, call.predictions),
          overall_confidence |-> _calculate_overall_confidence(call.predictions)]

\* lines 104-110: the dictionary analyze returns
ReturnStep(call, roster) ==
    [pc |-> "returned", text |-> call.text,
     result |-> [individual_results |-> call.individual_results,
                 ensemble_result |-> call.ensemble_result,
                 overall_confidence |-> call.overall_confidence,
                 prediction_method |-> "weighted_voting",
                 analyzer_count |-> Len(roster)]]

InitConcurrent ==
    /\ Constructed(NoWeights)
    /\ inp = [mode |-> "concurrent"]
    /\ pc = "run"

\* thread t calls engine.analyze(text)
CallAnalyze(t) ==
    /\ calls[t].pc = "idle"
    /\ \E text \in ConcurrentTexts : calls' = [calls EXCEPT ![t] = CallStarted(text)]
    /\ UNCHANGED <<engine, last, completed, facade, calibrator, inp, pc, objects>>

\* thread t runs the next analyzer of the roster
RunAnalyzer(t) ==
    /\ calls[t].pc = "loop" /\ calls[t].i <= Len(analyzers)
    /\ calls' = [calls EXCEPT ![t] = AnalyzerStep(@, analyzers[calls[t].i])]
    /\ UNCHANGED <<engine, last, completed, facade, calibrator, inp, pc, objects>>

\* thread t has left the loop and aggregates its predictions
Aggregate(t) ==
    /\ calls[t].pc = "loop" /\ calls[t].i > Len(analyzers)
    /\ calls' = [calls EXCEPT ![t] = AggregateStep(@, weights)]
    /\ UNCHANGED <<engine, last, completed, facade, calibrator, inp, pc, objects>>

\* thread t appends its record to self.prediction_history
SaveHistory(t) ==
    /\ calls[t].pc = "save"
    /\ prediction_history' =
          SaveToHistory(prediction_history,
                        [timestamp |-> completed + 1,
                         ensemble_result |-> calls[t].ensemble_result,
                         overall_confidence |-> calls[t].overall_confidence])
    /\ completed' = completed + 1
    /\ calls' = [calls EXCEPT ![t].pc = "return"]
    /\ UNCHANGED <<analyzers, weights, last, facade, calibrator, inp, pc, objects>>

\* thread t returns
Return(t) ==
    /\ calls[t].pc = "return"
    /\ calls' = [calls EXCEPT ![t] = ReturnStep(@, analyzers)]
    /\ UNCHANGED <<engine, last, completed, facade, calibrator, inp, pc, objects>>

NextConcurrent ==
    \E t \in Threads :
        \/ CallAnalyze(t) \/ RunAnalyzer(t) \/ Aggregate(t) \/ SaveHistory(t) \/ Return(t)

SpecConcurrent == InitConcurrent /\ [][NextConcurrent]_vars

-----------------------------------------------------------------------------
(* Several engines and the weight dictionaries they refer to.  A dictionary *)
(* is an object: objects.dicts[r] is the content of the dictionary with the *)
(* reference r.  Reference 1 is the module constant DEFAULT_WEIGHTS of      *)
(* analyzers/__init__.py, reference 2 a dictionary of the caller; an engine *)
(* is [weights |-> reference, roster |-> length of self.analyzers].         *)

\* engines constructed in one behaviour
MaxEngines == 2

\* the references of DEFAULT_WEIGHTS and of the caller's dictionary
DefaultWeightsRef == 1

CallerRef == 2

\* the constructor's weights argument: None, or one of the two dictionaries
NoneArg == 0

WeightArgs == {NoneArg, DefaultWeightsRef, CallerRef}

\* dict[key] = value
DictSet(dict, key, value) ==
    [n \in DOMAIN dict \cup {key} |-> IF n = key THEN value ELSE dict[n]]

\* lines 41-44: "self.weights = weights" keeps the caller's object,
\* "DEFAULT_WEIGHTS.copy()" makes a new one
EngineConstructed(obj, arg) ==
    IF arg # NoneArg /\ DOMAIN obj.dicts[arg] # {}
    THEN [obj EXCEPT !.engines = Append(@, [weights |-> arg, roster |-> 5])]
    ELSE [obj EXCEPT
            !.dicts = Append(@, obj.dicts[DefaultWeightsRef]),
            !.engines = Append(@, [weights |-> Len(obj.dicts) + 1, roster |-> 5])]

\* lines 233-235: set_weights keeps the caller's object
EngineSetWeights(obj, e, ref) == [obj EXCEPT !.engines[e].weights = ref]

\* lines 237-246: add_analyzer writes into the dictionary self.weights
\* refers to; an unknown name changes nothing
EngineAddAnalyzer(obj, e, analyzer_name, weight) ==
    IF analyzer_name \in REGISTRY
    THEN [obj EXCEPT !.engines[e].roster = @ + 1,
                     !.dicts[obj.engines[e].weights] = DictSet(@, analyzer_name, weight)]
    ELSE obj

\* engine.weights as the engine reads it
WeightsOf(obj, e) == obj.dicts[obj.engines[e].weights]

\* the module is imported and the caller has made a dictionary
InitEngines ==
    /\ ConstructedFields(NoWeights)
    /\ objects = [dicts |-> <<DEFAULT_WEIGHTS, WeightsByClassName>>, engines |-> <<>>]
    /\ inp = [mode |-> "engines"]
    /\ pc = "run"

\* EnsembleEngine(weights)
NewEngine ==
    /\ inp.mode = "engines"
    /\ Len(objects.engines) < MaxEngines
    /\ \E arg \in WeightArgs :
          /\ objects' = EngineConstructed(objects, arg)
          /\ last' = [op |-> "new_engine", engine |-> Len(objects.engines) + 1,
                      default |-> arg = NoneArg]
    /\ UNCHANGED <<engine, completed, facade, calibrator, inp, pc, calls>>

\* engine e: set_weights(the caller's dictionary)
SetWeightsOf ==
    /\ inp.mode = "engines"
    /\ \E e \in DOMAIN objects.engines :
          /\ objects' = EngineSetWeights(objects, e, CallerRef)
          /\ last' = [op |-> "set_weights", engine |-> e]
    /\ UNCHANGED <<engine, completed, facade, calibrator, inp, pc, calls>>

\* engine e: add_analyzer(analyzer_name, weight)
AddAnalyzerTo ==
    /\ inp.mode = "engines"
    /\ \E e \in DOMAIN objects.engines, analyzer_name \in {"ml", "neural"}, weight \in {20, 90} :
          /\ objects.engines[e].roster < MaxRoster
          /\ objects' = EngineAddAnalyzer(objects, e, analyzer_name, weight)
          /\ last' = [op |-> "add_analyzer", engine |-> e,
                      returned |-> analyzer_name \in REGISTRY]
    /\ UNCHANGED <<engine, completed, facade, calibrator, inp, pc, calls>>

NextEngines == NewEngine \/ SetWeightsOf \/ AddAnalyzerTo

SpecEngines == InitEngines /\ [][NextEngines]_vars

-----------------------------------------------------------------------------
(* Properties of the operations *)

\* the ensemble result of engine.analyze(text) on a newly constructed engine
\* with this roster and these weights
FreshEnsembleResult(roster, w, text) ==
    _aggregate_predictions(w, RunAnalyzers(roster, text))

C6_FacadeRejectsShortTexts ==
    last.op = "facade_analyze" =>
        LET text == TextById(last.text)
        IN  /\ (text.kind = "str" /\ text.len < 10) =>
                  (last.raised /\ last.error = "ValueError")
            /\ ~last.raised => (text.kind = "str" /\ text.len >= 10)

\* C7: engine.analyze raises for a non-string or empty text and returns no
\* ensemble result for it.
C7_EngineRejectsInvalidInput ==
    last.op = "analyze" =>
        LET text == TextById(last.text)
        IN  (text.kind # "str" \/ text.len = 0) => last.raised

\* s is an initial segment of t
IsPrefix(s, t) == Len(s) <= Len(t) /\ SubSeq(t, 1, Len(s)) = s

\* C8: prediction_history is append-only: its length is the number of
\* completed engine.analyze calls, and every operation leaves the existing
\* records in place, adding at the end one record {timestamp,
\* ensemble_result, overall_confidence} per analyze call it completed.
C8_HistoryAppendOnly ==
    /\ [](Len(prediction_history) = completed)
    /\ [][/\ IsPrefix(prediction_history, prediction_history')
          /\ Len(prediction_history') - Len(prediction_history) = completed' - completed
          /\ \A i \in (Len(prediction_history) + 1)..Len(prediction_history') :
                /\ DOMAIN prediction_history'[i]
                       = {"timestamp", "ensemble_result", "overall_confidence"}
                /\ prediction_history'[i].timestamp = i
          /\ last'.op \in {"set_weights", "add_analyzer", "get_prediction_statistics",
                           "export_predictions", "calibrate", "clear_cache", "get_stats",
                           "export_calibration_report"} =>
                prediction_history' = prediction_history
          /\ (last'.op \in {"analyze", "facade_analyze", "apply_calibration"}) =>
                Len(prediction_history')
                    = Len(prediction_history) + (IF last'.raised THEN 0 ELSE 1)]_vars

\* a calibration run that analysed two samples and then failed has left both
\* records in the history
C8_Witness ==
    /\ last.op = "calibrate_on_dataset" /\ last.raised
    /\ Len(prediction_history) = 2
    /\ completed = 2
    /\ prediction_history[1].timestamp = 1 /\ prediction_history[2].timestamp = 2

\* C11: a calibration run that fails (calibrator.calibrate_on_dataset raising,
\* facade.calibrate returning success = False) leaves everything as it was
\* before the call: best_parameters, calibration_results, is_calibrated,
\* calibration_threshold, and the engine's own roster, weights and history
C11_FailedCalibrationLeavesState ==
    [][(\/ last'.op = "calibrate_on_dataset" /\ last'.raised
        \/ last'.op = "calibrate" /\ (last'.raised \/ ~last'.result.success))
       => /\ UNCHANGED <<best_parameters, calibration_results>>
          /\ UNCHANGED <<is_calibrated, calibration_threshold>>
          /\ UNCHANGED <<analyzers, weights, prediction_history>>]_vars

\* C17: apply_calibration on an empty best_parameters raises ValueError and
\* leaves the engine's history alone; otherwise, when it returns, the
\* ensemble_result of its output is the one the ensemble produces for the text,
\* classification included, and next to it the calibration entry holds that
\* classification again, the stored threshold, and the verdict and confidence
\* that follow from  ai_probability >= stored threshold  alone
C17_CalibrationKeepsBothVerdicts ==
    [][last'.op = "apply_calibration"
       => IF best_parameters = EmptyDict
          THEN /\ last'.raised /\ last'.error = "ValueError"
               /\ UNCHANGED <<prediction_history, completed>>
          ELSE ~last'.raised
                  => /\ last'.result.ensemble_result
                            = FreshEnsembleResult(analyzers, weights, TextById(last'.text))
                     /\ last'.result.calibration.original_classification
                            = last'.result.ensemble_result.classification
                     /\ last'.result.calibration.calibrated_threshold
                            = best_parameters.ai_threshold
                     /\ IF AtLeast(last'.result.ensemble_result.ai_probability,
                                   best_parameters.ai_threshold)
                        THEN /\ last'.result.calibration.calibrated_classification
                                    = "AI (Calibrated)"
                             /\ last'.result.calibration.calibrated_confidence
                                    = last'.result.ensemble_result.ai_probability
                        ELSE /\ last'.result.calibration.calibrated_classification
                                    = "Human (Calibrated)"
                             /\ last'.result.calibration.calibrated_confidence
                                    = 10000 - last'.result.ensemble_result.ai_probability]_vars

\* apply_calibration has returned a calibrated verdict AI next to an ensemble
\* classification that is not Probabilmente AI
C17_Witness ==
    /\ last.op = "apply_calibration" /\ ~last.raised
    /\ last.result.calibration.calibrated_classification = "AI (Calibrated)"
    /\ last.result.ensemble_result.classification # "Probabilmente AI"
    /\ last.result.calibration.original_classification
           = last.result.ensemble_result.classification

StoredThreshold ==
    IF best_parameters = EmptyDict THEN Threshold(5000, 0)
    ELSE best_parameters.ai_threshold

\* the folds in whose test set sample i is, with its position there
TestSetsOf(folds, i) ==
    {fk \in UNION {{<<f, k>> : k \in DOMAIN folds[f].test_indices} : f \in DOMAIN folds} :
        folds[fk[1]].test_indices[fk[2]] = i}

\* C16: cross_validate leaves best_parameters and calibration_results as they
\* were, whether it returns or raises; when it returns, every fold was
\* evaluated with the threshold stored before the call (0.5 when nothing was
\* stored) and every sample of the dataset is in the test set of exactly one
\* fold, test sets holding samples of the dataset only
C16_CrossValidateKeepsThreshold ==
    [][last'.op = "cross_validate"
       => /\ UNCHANGED <<best_parameters, calibration_results>>
          /\ ~last'.raised
                 => /\ \A f \in DOMAIN last'.per_fold_scores :
                           last'.per_fold_scores[f].threshold = StoredThreshold
                    /\ \A i \in 1..last'.samples :
                           Cardinality(TestSetsOf(last'.per_fold_scores, i)) = 1
                    /\ \A f \in DOMAIN last'.per_fold_scores :
                           \A k \in DOMAIN last'.per_fold_scores[f].test_indices :
                               last'.per_fold_scores[f].test_indices[k]
                                   \in 1..last'.samples]_vars

\* a cross-validation of two samples in two folds has returned, after a
\* calibration that stored a threshold other than 0.5
C16_Witness ==
    /\ last.op = "cross_validate" /\ ~last.raised
    /\ last.samples = 2 /\ Len(last.per_fold_scores) = 2
    /\ best_parameters # EmptyDict
    /\ best_parameters.ai_threshold # Threshold(5000, 0)
    /\ last.per_fold_scores[2].threshold = best_parameters.ai_threshold

-----------------------------------------------------------------------------
(* One call of a pure function on inputs drawn from bounded sets:           *)
(* engine.analyze on a freshly constructed engine, analyzer.predict on an  *)
(* arbitrary metrics dictionary, and a threshold search of the calibrator  *)
(* on an arbitrary list of predictions.                                     *)

LexicalCore ==
    {[ttr |-> 100000, burstiness |-> -100000], [ttr |-> 33333, burstiness |-> 20000]}

SyntacticCore ==
    {[variability |-> 0, repetitiveness |-> 0], [variability |-> 50000, repetitiveness |-> 0]}

SemanticCore ==
    {[subjectivity |-> 0, conceptual_density |-> 20000, avg_overlap |-> 900000],
     [subjectivity |-> 0, conceptual_density |-> 10000, avg_overlap |-> 100000]}

StylisticCore ==
    {[punct_variability |-> 0, upper_ratio |-> 5000, phrase_repetitiveness |-> 10000],
     [punct_variability |-> 57735, upper_ratio |-> 1000, phrase_repetitiveness |-> 10000]}

MLCore ==
    {[entropy |-> 90000, transition_diversity |-> 100000,
      char_transition_diversity |-> 60000, max_repeat_ratio |-> 5000],
     [entropy |-> 81234, transition_diversity |-> 95000,
      char_transition_diversity |-> 61111, max_repeat_ratio |-> 20000]}

\* valid texts on which no analyzer throws: every combination of features
FullTexts ==
    {StrText(60, 60, l, s, m, y, x, {}) :
        l \in LexicalFeatures, s \in SyntacticFeatures, m \in SemanticFeatures,
        y \in StylisticFeatures, x \in MLFeatures}

\* valid texts on which a non-empty set of analyzers throws
FaultTexts ==
    {StrText(60, 60, l, s, m, y, x, f) :
        l \in LexicalCore, s \in SyntacticCore, m \in SemanticCore,
        y \in StylisticCore, x \in MLCore, f \in (SUBSET REGISTRY) \ {{}}}

InvalidTexts == {NonStringText, EmptyText, BlankText, ShortText}

\* "  Hi there  ": 12 characters, 8 of them left by strip()
PaddedShortText == StrText(12, 8, NoLex, NoSyn, NoSem, NoSty, NoML, {})

\* texts of 9 and of 10 characters, and one of 10 characters between blanks
BoundaryTexts ==
    {StrText(stripLen + pad, stripLen, l, s, m, y, x, {}) :
        stripLen \in {9, 10}, pad \in {0, 4},
        l \in LexicalCore, s \in SyntacticCore, m \in SemanticCore,
        y \in StylisticCore, x \in MLCore}

\* the texts one analyzer is called with
AnalyzerTexts == InvalidTexts \cup {PaddedShortText} \cup BoundaryTexts \cup FullTexts

\* the keys predict reads, per analyzer
PredictKeys(k) ==
    CASE k = "lexical" -> {"ttr", "burstiness", "unique_words_ratio"}
      [] k = "syntactic" -> {"sentence_variability", "pattern_repetitiveness"}
      [] k = "semantic" -> {"subjectivity", "conceptual_density", "thematic_coherence"}
      [] k = "stylistic" -> {"capital_ratio", "punct_variability", "phrase_repetitiveness"}
      [] k = "ml" -> {"entropy", "transition_diversity", "max_repeat_ratio"}

\* values of a metric, in and out of its range, on both sides of each threshold
MetricValues == {-20000, 5, 450, 1200, 2800, 4500, 8500, 9500, 20000}

\* every metrics dictionary over a subset of the keys and these values
MetricsDicts(k) ==
    UNION {[keys -> MetricValues] : keys \in SUBSET PredictKeys(k)}

\* ai_probabilities (tenths) a list of verdicts is drawn from
VerdictValues == {0, 3, 5, 10}

\* lists of two or of five verdicts, in ascending order (statistics.variance
\* sums exact fractions, so it does not depend on the order)
VerdictLists ==
    {xs \in [1..2 -> VerdictValues] \cup [1..5 -> VerdictValues] :
        \A i \in 1..(Len(xs) - 1) : xs[i] <= xs[i + 1]}

\* sentences in a text given by its sentences, and words in a sentence
MaxSentences == 3

MaxWords == 4

\* a text given by the word counts of its sentences: every word has
\* word_chars characters, words are separated by one blank, every sentence
\* ends with a full stop, sentences are separated by one blank, and no two
\* sentences share a word.  "A. B. C." is <<1, 1, 1>> with word_chars = 1.
SentenceTexts ==
    UNION {[sentence_lengths : [1..n -> 1..MaxWords], word_chars : {1, 4}] :
              n \in 0..MaxSentences}

\* len(text) of such a text
CharCount(t) ==
    LET n == Len(t.sentence_lengths)
        words == SumSeq(t.sentence_lengths)
    IN  IF n = 0 THEN 0 ELSE words * t.word_chars + (words - n) + n + (n - 1)

RECURSIVE LessBig(_, _, _, _)
\* a/b < c/d for a, c >= 0 and b, d > 0, without products: by the integer
\* parts, then by the reciprocals of the fractional parts
LessBig(a, b, c, d) ==
    IF a \div b # c \div d THEN a \div b < c \div d
    ELSE IF c % d = 0 THEN FALSE
    ELSE IF a % b = 0 THEN TRUE
    ELSE LessBig(d, c % d, b, a % b)

RECURSIVE SqrtFloor(_, _, _, _)
\* the greatest r in lo..hi-1 with (r / 10^4)^2 <= num/den, by bisection
SqrtFloor(lo, hi, num, den) ==
    IF hi - lo <= 1 THEN lo
    ELSE LET Halved(mid) ==
                 IF LessBig(num, den, mid * mid, 100000000)
                 THEN SqrtFloor(lo, mid, num, den)
                 ELSE SqrtFloor(mid, hi, num, den)
         IN  Halved((lo + hi) \div 2)

\* round(sqrt(num/den), 4) in units of 1e-4, for num/den < 4
RoundedSqrt(num, den) ==
    LET Rounded(r) ==
            IF LessBig(num, den, (2 * r + 1) * (2 * r + 1), 400000000) THEN r
            ELSE IF LessBig((2 * r + 1) * (2 * r + 1), 400000000, num, den) THEN r + 1
            ELSE IF r % 2 = 0 THEN r ELSE r + 1
    IN  Rounded(SqrtFloor(0, 20001, num, den))

\* sum of the squares
SumSquares(xs) == SumSeq([i \in DOMAIN xs |-> xs[i] * xs[i]])

\* lines 42-48: (std_length / avg_length)^2 as a fraction: with n lengths of
\* sum S and sum of squares Q, stdev^2 = (nQ - S^2) / (n(n-1)) and
\* mean^2 = S^2 / n^2; 0 for fewer than two sentences
VariabilitySquared(sentence_lengths) ==
    LET Squared(n, S, Q) ==
            IF n > 1 /\ S > 0 THEN <<n * (n * Q - S * S), (n - 1) * S * S>>
            ELSE <<0, 1>>
    IN  Squared(Len(sentence_lengths), SumSeq(sentence_lengths),
                SumSquares(sentence_lengths))

\* analyzers/syntactic_analyzer.py, analyze on a text given by its sentences:
\* of the metrics the two entries predict reads; 'sentence_variability' is
\* round(variability, 4); no sentence repeats a pattern of another one
SyntacticAnalyzer_analyze_sentences(t) ==
    LET Metrics(v) ==
            [sentence_variability |-> RoundedSqrt(v[1], v[2]),
             pattern_repetitiveness |-> 0]
    IN  Metrics(VariabilitySquared(t.sentence_lengths))

\* core/ensemble_analyzer.py, SyntacticAnalyzer.analyze: no validation and
\* no rounding; the variability is kept as its square
EnsembleSyntactic_analyze(t) ==
    [sentence_variability_squared |-> VariabilitySquared(t.sentence_lengths),
     pattern_repetitiveness |-> 0]

\* core/ensemble_analyzer.py, SyntacticAnalyzer.predict, in tenths:
\* variability < 0.2 is variability^2 < 1/25
EnsembleSyntactic_score(metrics) ==
    (IF 25 * metrics.sentence_variability_squared[1]
            < metrics.sentence_variability_squared[2] THEN 4 ELSE 0)
    + (IF metrics.pattern_repetitiveness < 10 THEN 3
       ELSE IF metrics.pattern_repetitiveness > 5000 THEN 2 ELSE 0)

\* the two classes named SyntacticAnalyzer
SyntacticImplementations == {"analyzers", "ensemble_analyzer"}

\* verdicts in a list handed to _calculate_overall_confidence
MaxVerdicts == 3

\* verdicts of an analyzer: confidence in 1e-4, ai_prob in tenths
Verdicts == [confidence : {0, 5500, 10000}, ai_prob : {0, 5, 10}]

\* the lists of verdicts of up to MaxVerdicts analyzers
PredictionsLists == UNION {[1..n -> Verdicts] : n \in 0..MaxVerdicts}

(* core/ensemble_analyzer.py: EnsembleAnalyzer, the engine's predecessor with
   its own five analyzer classes and a list of weights *)

\* line 375: self.weights, in hundredths
EnsembleAnalyzer_weights == <<25, 25, 20, 15, 15>>

\* lines 366-372: analyzer.name of the roster, by position
EnsembleAnalyzer_names ==
    <<"LexicalAnalyzer", "SyntacticAnalyzer", "SemanticAnalyzer", "StylisticAnalyzer",
      "AdvancedMLAnalyzer">>

\* what one analyzer of the roster does with a text: it raises, or it gives a
\* verdict (ai_prob in tenths, confidence in 1e-4)
Raised == [raised |-> TRUE]

AnalyzerOutcomes ==
    {Raised,
     [raised |-> FALSE, ai_prob |-> 10, confidence |-> 5000],
     [raised |-> FALSE, ai_prob |-> 2, confidence |-> 9000]}

\* the outcomes of the five analyzers on a text
RosterOutcomes == [DOMAIN EnsembleAnalyzer_weights -> AnalyzerOutcomes]

RECURSIVE EnsembleAnalyzer_predictions(_, _)
\* lines 385-412: the predictions list after the loop, from position i on
EnsembleAnalyzer_predictions(outcomes, i) ==
    IF i > Len(outcomes) THEN <<>>
    ELSE (IF outcomes[i].raised THEN <<>>
          ELSE <<[analyzer |-> EnsembleAnalyzer_names[i],
                  ai_prob |-> outcomes[i].ai_prob,
                  human_prob |-> 10 - outcomes[i].ai_prob,
                  confidence |-> outcomes[i].confidence]>>)
         \o EnsembleAnalyzer_predictions(outcomes, i + 1)

RECURSIVE EnsembleAnalyzer_sums(_, _)
\* lines 445-452: the accumulators after the first n predictions;
\* "for i, pred in enumerate(predictions): weight = self.weights[i] * ..."
EnsembleAnalyzer_sums(predictions, n) ==
    IF n = 0
    THEN [weighted_ai_sum |-> 0, weighted_human_sum |-> 0, weight_sum |-> 0,
          confidence_weighted_sum |-> 0]
    ELSE LET Accumulate(pred, w, rest) ==
                 [weighted_ai_sum |-> rest.weighted_ai_sum + pred.ai_prob * w * pred.confidence,
                  weighted_human_sum |->
                      rest.weighted_human_sum + pred.human_prob * w * pred.confidence,
                  weight_sum |-> rest.weight_sum + w * pred.confidence,
                  confidence_weighted_sum |->
                      rest.confidence_weighted_sum + pred.confidence * w]
         IN  Accumulate(predictions[n], EnsembleAnalyzer_weights[n],
                        EnsembleAnalyzer_sums(predictions, n - 1))

\* EnsembleAnalyzer.analyze on a text with these outcomes: _aggregate_predictions
\* raises StatisticsError (statistics.variance) for one prediction, and
\* _calculate_overall_confidence (statistics.mean, no guard for an empty
\* list) for none
EnsembleAnalyzer_analyze(outcomes) ==
    LET Result(predictions, probs, cls) ==
            [raised |-> FALSE,
             predictions |-> predictions,
             ai_prob |-> probs.ai,
             human_prob |-> probs.human,
             ensemble_result |->
                 [ai_probability |-> RoundFrac(probs.ai[1], probs.ai[2], 4),
                  human_probability |-> RoundFrac(probs.human[1], probs.human[2], 4),
                  classification |-> cls.classification,
                  confidence_level |-> cls.confidence_level],
             overall_confidence |-> _calculate_overall_confidence(predictions),
             analyzer_count |-> Len(EnsembleAnalyzer_weights)]
        Classified(predictions, probs) ==
            Result(predictions, probs, Classification(probs.ai, probs.human))
        Aggregated(predictions) ==
            IF Len(predictions) < 2
            THEN [raised |-> TRUE, error |-> "StatisticsError", predictions |-> predictions]
            ELSE Classified(predictions,
                            AggregatedProbabilities(
                                EnsembleAnalyzer_sums(predictions, Len(predictions))))
    IN  Aggregated(EnsembleAnalyzer_predictions(outcomes, 1))

\* samples in the list of predictions a threshold search is run on
MaxSamples == 3

\* ai_probabilities of the samples: below every grid threshold, on the first
\* grid threshold 0.1, on the decimal 0.15 just below the second one, and two
\* values between later grid thresholds
ScoreValues == {500, 1000, 1500, 5000, 9000}

\* the lists of predictions: true labels (1 = ai) and ai_probabilities
PredictionLists ==
    UNION {{[y_true |-> t, y_scores |-> p] : t \in [1..n -> {0, 1}],
                                             p \in [1..n -> ScoreValues]} :
              n \in 0..MaxSamples}

CalibrationMethods == {"grid_search", "roc_optimization"}

PureInputs ==
    {[mode |-> "agreement", xs |-> xs, ys |-> ys] : xs \in VerdictLists, ys \in VerdictLists}
    \cup
    {[mode |-> "calibration", method |-> m, y_true |-> l.y_true, y_scores |-> l.y_scores] :
        m \in CalibrationMethods, l \in PredictionLists}
    \cup
    {[mode |-> "analyze", text |-> t] : t \in FullTexts \cup FaultTexts \cup InvalidTexts}
    \cup
    {[mode |-> "analyzer", kind |-> k, text |-> t] : k \in REGISTRY, t \in AnalyzerTexts}
    \cup
    {[mode |-> "confidence", predictions |-> ps] : ps \in PredictionsLists}
    \cup
    {[mode |-> "ensemble_analyzer", outcomes |-> os] : os \in RosterOutcomes}
    \cup
    {[mode |-> "syntactic", implementation |-> c, text |-> t] :
        c \in SyntacticImplementations, t \in SentenceTexts}
    \cup
    UNION {{[mode |-> "predict", kind |-> k, metrics |-> m] : m \in MetricsDicts(k)} :
              k \in REGISTRY}

\* the weights argument matters to analyze only
InitPure ==
    /\ inp \in PureInputs
    /\ \E weights_arg \in {NoWeights} \cup WeightMaps :
          /\ inp.mode # "analyze" => weights_arg = NoWeights
          /\ Constructed(weights_arg)
    /\ pc = "call"

\* engine.analyze(inp.text), observed with the locals of _aggregate_predictions
AnalyzeInput ==
    /\ pc = "call" /\ inp.mode = "analyze"
    /\ \E r \in {EnsembleEngine_analyze(analyzers, weights, prediction_history,
                                         inp.text, completed + 1)} :
           /\ prediction_history' = r.history
           /\ completed' = IF r.raised THEN completed ELSE completed + 1
           /\ last' = IF r.raised
                      THEN [op |-> "analyze", text |-> inp.text, raised |-> TRUE,
                            error |-> r.error]
                      ELSE [op |-> "analyze", text |-> inp.text, raised |-> FALSE,
                            result |-> r.result, locals |-> r.locals,
                            predictions |-> r.predictions]
    /\ pc' = "done"
    /\ UNCHANGED <<analyzers, weights, facade, calibrator, inp, calls, objects>>

\* analyzer.predict(inp.metrics)
PredictInput ==
    /\ pc = "call" /\ inp.mode = "predict"
    /\ \E p \in {analyzer_predict(inp.kind, inp.metrics)} :
           last' = [op |-> "predict", ai_probability |-> p[1], human_probability |-> p[2]]
    /\ pc' = "done"
    /\ UNCHANGED <<engine, completed, facade, calibrator, inp, calls, objects>>

\* lines 142-147 of _aggregate_predictions on two lists of verdicts
AgreementInput ==
    /\ pc = "call" /\ inp.mode = "agreement"
    /\ last' = [op |-> "agreement",
                xs_score |-> AgreementScore(inp.xs),
                ys_score |-> AgreementScore(inp.ys)]
    /\ pc' = "done"
    /\ UNCHANGED <<engine, completed, facade, calibrator, inp, calls, objects>>

\* _grid_search_calibration or _roc_optimization on inp's list of predictions
CalibrationInput ==
    /\ pc = "call" /\ inp.mode = "calibration"
    /\ \E r \in {IF inp.method = "grid_search"
                  THEN _grid_search_calibration(inp.y_true, inp.y_scores)
                  ELSE _roc_optimization(inp.y_true, inp.y_scores)} :
           last' = IF r.raised
                   THEN [op |-> "calibration", raised |-> TRUE, error |-> r.error]
                   ELSE [op |-> "calibration", raised |-> FALSE, result |-> r.result]
    /\ pc' = "done"
    /\ UNCHANGED <<engine, completed, facade, calibrator, inp, calls, objects>>

\* create_analyzer(inp.kind).analyze(inp.text)
AnalyzerInput ==
    /\ pc = "call" /\ inp.mode = "analyzer"
    /\ last' = IF ~_validate_input(inp.text)
               THEN [op |-> "analyzer_analyze", raised |-> TRUE, error |-> "ValueError"]
               ELSE IF AnalyzerRaises(inp.kind, inp.text)
               THEN [op |-> "analyzer_analyze", raised |-> TRUE, error |-> "Exception"]
               ELSE [op |-> "analyzer_analyze", raised |-> FALSE,
                     metrics |-> analyzer_analyze(inp.kind, inp.text)]
    /\ pc' = "done"
    /\ UNCHANGED <<engine, completed, facade, calibrator, inp, calls, objects>>

\* SyntacticAnalyzer().analyze(text) followed by predict(metrics), for either
\* class of that name; increment is what the test on sentence_variability
\* adds to ai_score, in tenths
SyntacticInput ==
    /\ pc = "call" /\ inp.mode = "syntactic"
    /\ last' =
          IF inp.implementation = "ensemble_analyzer"
          THEN [op |-> "syntactic", raised |-> FALSE,
                variability_is_zero |->
                    EnsembleSyntactic_analyze(inp.text).sentence_variability_squared[1] = 0,
                ai_score |-> EnsembleSyntactic_score(EnsembleSyntactic_analyze(inp.text))]
          ELSE IF ~_validate_input([kind |-> "str", len |-> CharCount(inp.text),
                                    stripLen |-> CharCount(inp.text)])
          THEN [op |-> "syntactic", raised |-> TRUE, error |-> "ValueError"]
          ELSE [op |-> "syntactic", raised |-> FALSE,
                metrics |-> SyntacticAnalyzer_analyze_sentences(inp.text),
                variability_is_zero |->
                    SyntacticAnalyzer_analyze_sentences(inp.text).sentence_variability = 0,
                ai_score |->
                    SyntacticAnalyzer_score(SyntacticAnalyzer_analyze_sentences(inp.text))]
    /\ pc' = "done"
    /\ UNCHANGED <<engine, completed, facade, calibrator, inp, calls, objects>>

\* engine._calculate_overall_confidence(inp.predictions)
ConfidenceInput ==
    /\ pc = "call" /\ inp.mode = "confidence"
    /\ last' = [op |-> "confidence",
                overall_confidence |-> _calculate_overall_confidence(inp.predictions)]
    /\ pc' = "done"
    /\ UNCHANGED <<engine, completed, facade, calibrator, inp, calls, objects>>

\* EnsembleAnalyzer().analyze(text) on a text with inp's outcomes
EnsembleAnalyzerInput ==
    /\ pc = "call" /\ inp.mode = "ensemble_analyzer"
    /\ \E r \in {EnsembleAnalyzer_analyze(inp.outcomes)} :
          last' = [op |-> "ensemble_analyzer"] @@ r
    /\ pc' = "done"
    /\ UNCHANGED <<engine, completed, facade, calibrator, inp, calls, objects>>

NextPure ==
    \/ AnalyzeInput \/ PredictInput \/ AgreementInput \/ CalibrationInput \/ AnalyzerInput
    \/ SyntacticInput \/ ConfidenceInput \/ EnsembleAnalyzerInput

SpecPure == InitPure /\ [][NextPure]_vars

-----------------------------------------------------------------------------
(* Properties of one call *)

\* an engine.analyze call has returned or raised
AnalyzeDone == pc = "done" /\ last.op = "analyze"

\* an engine.analyze call has returned
AnalyzeReturned == AnalyzeDone /\ ~last.raised

\* C1: engine.analyze returns a complete result whatever subset of the five
\* analyzers raises, every analyzer that raised appears in individual_results
\* as the neutral record, and the call itself never raises.
C1_AnalyzeSurvivesAnalyzerFailures ==
    AnalyzeDone =>
        /\ ~last.raised
        /\ DOMAIN last.result.individual_results = ClassNames
        /\ \A k \in REGISTRY :
              AnalyzerRaises(k, last.text) =>
                  last.result.individual_results[AnalyzerName(k)] = NeutralRecord

\* C2: the aggregated ai_prob is sum(ai_prob_i * weight_i) / sum(weight_i) with
\* weight_i = weights.get(analyzer_i, 0.2) * confidence_i, human_prob likewise,
\* and both are 0.5 when the sum of the weights is zero.
C2_WeightedAverage ==
    AnalyzeReturned =>
        LET preds == last.predictions
            wt == [i \in DOMAIN preds |->
                       ConfiguredWeight(weights, preds[i].analyzer) * preds[i].confidence]
            W == SumSeq(wt)
            A == SumSeq([i \in DOMAIN preds |-> preds[i].ai_prob * wt[i]])
            H == SumSeq([i \in DOMAIN preds |-> preds[i].human_prob * wt[i]])
            ai == last.locals.ai_prob
            human == last.locals.human_prob
            r == last.result.ensemble_result
        IN  IF W = 0
            THEN /\ ai = <<1, 2>> /\ human = <<1, 2>>
                 /\ r.ai_probability = 5000 /\ r.human_probability = 5000
            ELSE /\ Reduce(ai) = Reduce(<<A, 10 * W>>)
                 /\ Reduce(human) = Reduce(<<H, 10 * W>>)
                 /\ r.ai_probability = RoundFrac(A, 10 * W, 4)
                 /\ r.human_probability = RoundFrac(H, 10 * W, 4)

\* a weighted average of verdicts that differ, under weights that differ
C2_Witness ==
    /\ AnalyzeReturned
    /\ Len(last.predictions) = 5
    /\ \E i, j \in DOMAIN last.predictions :
          /\ last.predictions[i].ai_prob # last.predictions[j].ai_prob
          /\ PredictionWeight(weights, last.predictions[i])
                # PredictionWeight(weights, last.predictions[j])
          /\ PredictionWeight(weights, last.predictions[i]) > 0
          /\ PredictionWeight(weights, last.predictions[j]) > 0

\* C3: with p the aggregated ai_prob, p > 0.6 gives "Probabilmente AI" ("Alta"
\* if p > 0.75, else "Media"), p < 0.4 gives "Probabilmente Umano" ("Alta" if
\* 1 - p > 0.75, else "Media"), and every other p, 0.4 and 0.6 included,
\* gives "Indeterminato" with "Bassa".
C3_ClassificationCutoffs ==
    AnalyzeReturned =>
        LET n == last.locals.ai_prob[1]
            d == last.locals.ai_prob[2]
            r == last.result.ensemble_result
        IN  /\ d > 0
            /\ 10 * n > 6 * d =>
                  /\ r.classification = "Probabilmente AI"
                  /\ r.confidence_level = IF 4 * n > 3 * d THEN "Alta" ELSE "Media"
            /\ 10 * n < 4 * d =>
                  /\ r.classification = "Probabilmente Umano"
                  /\ r.confidence_level = IF 4 * (d - n) > 3 * d THEN "Alta" ELSE "Media"
            /\ (10 * n <= 6 * d /\ 10 * n >= 4 * d) =>
                  /\ r.classification = "Indeterminato"
                  /\ r.confidence_level = "Bassa"

\* an aggregated ai_prob of exactly 0.6 is classified "Indeterminato"
C3_Witness ==
    /\ AnalyzeReturned
    /\ last.predictions # <<>>
    /\ 10 * last.locals.ai_prob[1] = 6 * last.locals.ai_prob[2]
    /\ last.result.ensemble_result.classification = "Indeterminato"

\* C4: for a valid text every probability of the result lies in [0,1] and
\* ai_probability + human_probability = 1: each analyzer's predict output
\* (for any metrics dictionary), each analyzer's confidence, and the
\* aggregated ai_probability and human_probability.
C4_ProbabilitiesInRange ==
    /\ (pc = "done" /\ last.op = "predict") =>
          /\ last.ai_probability \in 0..10
          /\ last.human_probability \in 0..10
          /\ last.ai_probability + last.human_probability = 10
    /\ (AnalyzeReturned /\ _validate_input(last.text)) =>
          /\ \A i \in DOMAIN last.predictions :
                /\ last.predictions[i].ai_prob \in 0..10
                /\ last.predictions[i].human_prob \in 0..10
                /\ last.predictions[i].ai_prob + last.predictions[i].human_prob = 10
                /\ last.predictions[i].confidence \in 0..10000
          /\ \A n \in DOMAIN last.result.individual_results :
                LET ir == last.result.individual_results[n]
                IN  /\ ir.ai_probability \in 0..10
                    /\ ir.ai_probability + ir.human_probability = 10
                    /\ ir.confidence \in 0..10000
          /\ last.result.ensemble_result.ai_probability \in 0..10000
          /\ last.result.ensemble_result.human_probability \in 0..10000
          /\ last.result.ensemble_result.ai_probability
                + last.result.ensemble_result.human_probability = 10000

\* a valid text whose aggregated ai_prob is not a multiple of 0.0001, so that
\* both returned probabilities are rounded
C4_Witness ==
    /\ AnalyzeReturned /\ _validate_input(last.text)
    /\ Len(last.predictions) = 5
    /\ DivScale(last.locals.ai_prob[1], last.locals.ai_prob[2], 4)[2] # 0

\* C9: an engine constructed without a weights argument weighs each vote by
\* DEFAULT_WEIGHTS of that analyzer (.25, .25, .20, .15, .15) times its
\* confidence, and weighted_confidence is the sum of confidence_i times
\* those weights.
C9_DefaultWeightsApplied ==
    (AnalyzeReturned /\ weights = DEFAULT_WEIGHTS /\ last.predictions # <<>>) =>
        LET preds == last.predictions
            key(i) == CHOOSE k \in REGISTRY : AnalyzerName(k) = preds[i].analyzer
            wt == [i \in DOMAIN preds |-> DEFAULT_WEIGHTS[key(i)] * preds[i].confidence]
            W == SumSeq(wt)
            A == SumSeq([i \in DOMAIN preds |-> preds[i].ai_prob * wt[i]])
        IN  /\ Reduce(last.locals.ai_prob) = Reduce(<<A, 10 * W>>)
            /\ last.result.ensemble_result.weighted_confidence = RoundHalfEven(W, 1000)

\* C10: the agreement score is 1 - min(1, sample variance of the ai_prob
\* verdicts); it is 1 when all verdicts are identical, lies in [0,1], and of
\* two lists of verdicts the one with the larger variance never has the
\* larger agreement score.
C10_AgreementScore ==
    /\ (AnalyzeReturned /\ last.predictions # <<>>) =>
          LET xs == [i \in DOMAIN last.predictions |-> last.predictions[i].ai_prob]
              n == Len(xs)
              s == SumSeq(xs)
              dev2 == SumSeq([i \in DOMAIN xs |-> (n * xs[i] - s) * (n * xs[i] - s)])
              den == 100 * n * n * (n - 1)
              a == last.locals.agreement_score
          IN  /\ a[2] > 0 /\ 0 <= a[1] /\ a[1] <= a[2]
              /\ a[1] * den = a[2] * (den - Min(den, dev2))
              /\ (\A i \in DOMAIN xs : xs[i] = xs[1]) => a[1] = a[2]
              /\ last.result.ensemble_result.agreement_score
                     = RoundFrac(den - Min(den, dev2), den, 3)
              /\ last.result.ensemble_result.agreement_score \in 0..1000
    /\ (AnalyzeReturned /\ last.predictions = <<>>) =>
          last.result.ensemble_result.agreement_score = 0
    /\ (pc = "done" /\ last.op = "agreement") =>
          LET var(xs) ==
                  LET n == Len(xs)
                      s == SumSeq(xs)
                  IN  <<SumSeq([i \in DOMAIN xs |-> (n * xs[i] - s) * (n * xs[i] - s)]),
                        100 * n * n * (n - 1)>>
              vx == var(inp.xs)
              vy == var(inp.ys)
          IN  /\ vx[1] * vy[2] > vy[1] * vx[2] =>
                    last.xs_score[1] * last.ys_score[2] <= last.ys_score[1] * last.xs_score[2]
              /\ (\A i \in DOMAIN inp.xs : inp.xs[i] = inp.xs[1]) =>
                    last.xs_score[1] = last.xs_score[2]

\* five verdicts that are not all the same: the variance is positive and the
\* agreement score is below 1
C10_Witness ==
    /\ AnalyzeReturned
    /\ Len(last.predictions) = 5
    /\ \E i \in 1..5 : last.predictions[i].ai_prob # last.predictions[1].ai_prob
    /\ last.locals.agreement_score[1] < last.locals.agreement_score[2]
    /\ last.result.ensemble_result.agreement_score < 1000

\* a threshold search has returned or raised
CalibrationDone == pc = "done" /\ last.op = "calibration"

\* samples labeled ai / human in inp's list of predictions
Positives == {i \in DOMAIN inp.y_true : inp.y_true[i] = 1}

Negatives == {i \in DOMAIN inp.y_true : inp.y_true[i] = 0}

\* the samples the binarization  score >= threshold  calls ai
PredictedAI(threshold) ==
    {i \in DOMAIN inp.y_scores : AtLeast(inp.y_scores[i], threshold)}

\* F1 of that binarization against the true labels, as a fraction
F1At(threshold) ==
    LET tp == Cardinality(Positives \cap PredictedAI(threshold))
    IN  IF tp = 0 THEN <<0, 1>>
        ELSE <<2 * tp, Cardinality(Positives) + Cardinality(PredictedAI(threshold))>>

\* equality of fractions
FracEq(a, b) == a[1] * b[2] = b[1] * a[2]

\* the confusion matrix reported is the one of  score >= threshold
ConfusionIsAt(cm, threshold) ==
    /\ cm.true_positive = Cardinality(Positives \cap PredictedAI(threshold))
    /\ cm.false_positive = Cardinality(Negatives \cap PredictedAI(threshold))
    /\ cm.true_negative = Cardinality(Negatives \ PredictedAI(threshold))
    /\ cm.false_negative = Cardinality(Positives \ PredictedAI(threshold))

\* a non-empty list of predictions that is all human, all ai, or on which no
\* grid threshold has a true positive
Degenerate ==
    /\ inp.y_true # <<>>
    /\ \/ Positives = {}
       \/ Negatives = {}
       \/ \A k \in DOMAIN GridThresholds :
              Positives \cap PredictedAI(GridThresholds[k]) = {}

\* C12: a threshold search on a degenerate list of predictions (all human, all
\* ai, or no grid threshold with F1 > 0) does not raise: it returns a result
\* whose F1 is a well-defined number (0 when nothing is predicted correctly)
C12_DegenerateDatasetDoesNotThrow ==
    (CalibrationDone /\ Degenerate)
        => /\ ~last.raised
           /\ FracEq(last.result.best_f1_score,
                     F1At(last.result.best_thresholds.ai_threshold))

\* a grid search has returned its result
GridSearchReturned == CalibrationDone /\ inp.method = "grid_search" /\ ~last.raised

\* C13: grid search returns one of the 16 grid thresholds, all in [0.1, 0.9):
\* the one whose binarization  score >= threshold  has the greatest F1, the
\* smallest of them when several reach that F1; best_f1_score, best_accuracy
\* and the confusion matrix are those of the returned threshold
C13_GridSearchMaximizesF1 ==
    GridSearchReturned
        => \E k \in DOMAIN GridThresholds :
              /\ last.result.best_thresholds.ai_threshold = GridThresholds[k]
              /\ GridThresholds[k].base >= 1000 /\ GridThresholds[k].base < 9000
              /\ \A l \in DOMAIN GridThresholds :
                     ~FracLess(F1At(GridThresholds[k]), F1At(GridThresholds[l]))
              /\ \A l \in 1..(k - 1) :
                     FracLess(F1At(GridThresholds[l]), F1At(GridThresholds[k]))
              /\ FracEq(last.result.best_f1_score, F1At(GridThresholds[k]))
              /\ ConfusionIsAt(last.result.confusion_matrix, GridThresholds[k])
              /\ FracEq(last.result.best_accuracy,
                        <<last.result.confusion_matrix.true_positive
                              + last.result.confusion_matrix.true_negative,
                          Len(inp.y_true)>>)

\* a grid search whose best F1 is reached by the second threshold, and by the
\* third one as well, but not by the first
C13_Witness ==
    /\ GridSearchReturned
    /\ last.result.best_thresholds.ai_threshold = GridThresholds[2]
    /\ FracEq(F1At(GridThresholds[3]), last.result.best_f1_score)
    /\ FracLess(F1At(GridThresholds[1]), last.result.best_f1_score)

\* the threshold calls every ai sample ai and no human sample ai
Separates(threshold) == PredictedAI(threshold) = Positives

\* both labels occur and some grid threshold lies above every human score and
\* at or below every ai score
Separable ==
    /\ Positives # {} /\ Negatives # {}
    /\ \E k \in DOMAIN GridThresholds : Separates(GridThresholds[k])

\* C14: on a list of predictions whose ai samples and human samples are
\* separated by some grid threshold, grid search returns a threshold that
\* separates them, with F1 = 1 and neither false positives nor false negatives
C14_SeparableClustersAreSeparated ==
    (CalibrationDone /\ inp.method = "grid_search" /\ Separable)
        => /\ ~last.raised
           /\ Separates(last.result.best_thresholds.ai_threshold)
           /\ last.result.best_f1_score = <<1, 1>>
           /\ last.result.confusion_matrix.false_positive = 0
           /\ last.result.confusion_matrix.false_negative = 0

\* ai samples at 0.9 and human samples at 0.1, three samples in all
C14_Witness ==
    /\ GridSearchReturned
    /\ Len(inp.y_true) = 3
    /\ Positives # {} /\ Negatives # {}
    /\ \A i \in Positives : inp.y_scores[i] = 9000
    /\ \A i \in Negatives : inp.y_scores[i] = 1000
    /\ last.result.best_f1_score = <<1, 1>>
    /\ last.result.best_thresholds.ai_threshold = GridThresholds[2]

\* a ROC optimization has returned its result
RocReturned == CalibrationDone /\ inp.method = "roc_optimization" /\ ~last.raised

\* Youden's J = tpr - fpr of the binarization  score >= threshold, scaled by
\* the number of ai samples times the number of human samples
JAt(threshold) ==
    Cardinality(Positives \cap PredictedAI(threshold)) * Cardinality(Negatives)
        - Cardinality(Negatives \cap PredictedAI(threshold)) * Cardinality(Positives)

\* C15: roc_optimization returns an element of the threshold array of the ROC
\* curve; when both labels occur no element of the array has a greater
\* Youden's J; F1, accuracy, the confusion matrix, sensitivity and specificity
\* are those of the binarization  score >= returned threshold
C15_RocOptimizationMaximizesYouden ==
    RocReturned
        => /\ \E k \in DOMAIN RocThresholds(inp.y_true, inp.y_scores) :
                  RocThresholds(inp.y_true, inp.y_scores)[k]
                      = last.result.best_thresholds.ai_threshold
           /\ (Positives # {} /\ Negatives # {})
                  => \A l \in DOMAIN RocThresholds(inp.y_true, inp.y_scores) :
                         JAt(RocThresholds(inp.y_true, inp.y_scores)[l])
                             <= JAt(last.result.best_thresholds.ai_threshold)
           /\ FracEq(last.result.best_f1_score,
                     F1At(last.result.best_thresholds.ai_threshold))
           /\ ConfusionIsAt(last.result.confusion_matrix,
                            last.result.best_thresholds.ai_threshold)
           /\ FracEq(last.result.best_accuracy,
                     <<last.result.confusion_matrix.true_positive
                           + last.result.confusion_matrix.true_negative,
                       Len(inp.y_true)>>)
           /\ Positives # {}
                  => FracEq(last.result.detailed_metrics.sensitivity,
                            <<last.result.confusion_matrix.true_positive,
                              Cardinality(Positives)>>)
           /\ Negatives # {}
                  => FracEq(last.result.detailed_metrics.specificity,
                            <<last.result.confusion_matrix.true_negative,
                              Cardinality(Negatives)>>)

\* three samples of both labels for which the threshold 0.5 has the greatest
\* J, greater than that of the smallest score
C15_Witness ==
    /\ RocReturned
    /\ Len(inp.y_true) = 3
    /\ Positives # {} /\ Negatives # {}
    /\ last.result.best_thresholds.ai_threshold = Threshold(5000, 0)
    /\ \E i \in DOMAIN inp.y_scores :
           /\ inp.y_scores[i] < 5000
           /\ JAt(Threshold(inp.y_scores[i], 0)) < JAt(Threshold(5000, 0))

\* the names a weight map can give an analyzer of the roster by: the name the
\* analyzer reports and the key it is registered under
KnownAnalyzerNames == {AnalyzerName(k) : k \in REGISTRY} \cup REGISTRY

\* C19: a weight map naming an analyzer that is not in the roster is rejected
\* by the constructor: no constructed engine holds such a map, and none
\* returns an analysis made with it
C19_InvalidWeightMapRejected ==
    (AnalyzeDone /\ ~last.raised) => DOMAIN weights \subseteq KnownAnalyzerNames

\* one analyzer's analyze has returned or raised
AnalyzerDone == pc = "done" /\ last.op = "analyzer_analyze"

\* C20: analyze of each of the five analyzers raises ValueError exactly when
\* the text is not a string, is empty, is blank, or keeps fewer than 10
\* characters after strip(); for every other text it returns a metrics
\* dictionary with a confidence entry between 0 and 1
C20_AnalyzerValidatesInput ==
    AnalyzerDone
        => IF \/ inp.text.kind # "str"
              \/ inp.text.len = 0
              \/ inp.text.stripLen < 10
           THEN last.raised /\ last.error = "ValueError"
           ELSE /\ ~last.raised
                /\ "confidence" \in DOMAIN last.metrics
                /\ last.metrics.confidence >= 0
                /\ last.metrics.confidence <= 10000

\* a text of exactly 10 characters between blanks was analysed, and the
\* confidence returned is below the cap of the analyzer
C20_Witness ==
    /\ AnalyzerDone /\ ~last.raised
    /\ inp.text.stripLen = 10 /\ inp.text.len = 14
    /\ last.metrics.confidence > 0 /\ last.metrics.confidence < 9000

\* a syntactic analyzer has analysed inp's text, or raised
SyntacticDone == pc = "done" /\ last.op = "syntactic"

\* at least one sentence, and all sentences have the same number of words
UniformSentences ==
    /\ inp.text.sentence_lengths # <<>>
    /\ \A i \in DOMAIN inp.text.sentence_lengths :
           inp.text.sentence_lengths[i] = inp.text.sentence_lengths[1]

\* C21 as stated: for every text whose sentences all have the same word
\* count, "A. B. C." among them, analyze of a syntactic analyzer returns
\* sentence_variability = 0 and predict adds the increment 0.4 (with 0.3 for
\* the absence of repeated patterns, an ai_score of 0.7)
C21_UniformSentencesScoreLowVariability ==
    (SyntacticDone /\ UniformSentences)
        => /\ ~last.raised
           /\ last.variability_is_zero
           /\ last.ai_score = 7

\* C21 amended: the same for every such text that passes the analyzer's
\* input validation, which the SyntacticAnalyzer of the analyzers package
\* applies (at least 10 characters) and the one of core/ensemble_analyzer.py
\* does not; and in the analyzers package predict adds 0.4 exactly when the
\* reported sentence_variability is below 0.2
C21_UniformValidSentencesScoreLowVariability ==
    SyntacticDone
        => /\ last.raised <=> (inp.implementation = "analyzers" /\ CharCount(inp.text) < 10)
           /\ (~last.raised /\ UniformSentences)
                  => last.variability_is_zero /\ last.ai_score = 7
           /\ (~last.raised /\ inp.implementation = "analyzers")
                  => (last.ai_score = 7 <=> last.metrics.sentence_variability < 2000)

\* three sentences of one four-letter word each, 17 characters, analysed by
\* the analyzers package
C21_Witness ==
    /\ SyntacticDone /\ ~last.raised
    /\ inp.implementation = "analyzers"
    /\ inp.text.sentence_lengths = <<1, 1, 1>> /\ inp.text.word_chars = 4
    /\ last.metrics.sentence_variability = 0
    /\ last.ai_score = 7

\* 0.4 * mean(confidence) + 0.3 * agreement + 0.3 * certainty of a list of
\* verdicts, capped at 1, over DenOverall(verdicts): with n verdicts of
\* confidence sum sc (1e-4) and ai_prob sum sa (tenths),
\*   mean(confidence) = sc / (10^4 n),
\*   certainty = 2 |sa / (10 n) - 1/2|,
\*   variance = dev2 / (100 n^2 (n - 1)),  dev2 = sum (n x_i - sa)^2
DenOverall(verdicts) ==
    100000 * Len(verdicts) * Len(verdicts) * Max(1, Len(verdicts) - 1)

NumOverall(verdicts) ==
    LET n == Len(verdicts)
        m == Max(1, n - 1)
        sc == SumSeq([i \in DOMAIN verdicts |-> verdicts[i].confidence])
        sa == SumSeq([i \in DOMAIN verdicts |-> verdicts[i].ai_prob])
        dev2 == SumSeq([i \in DOMAIN verdicts |->
                           (n * verdicts[i].ai_prob - sa) * (n * verdicts[i].ai_prob - sa)])
        agreement == IF n > 1 THEN 30000 * n * n * m - 300 * Min(100 * n * n * m, dev2)
                     ELSE 30000 * n * n * m
    IN  Min(DenOverall(verdicts),
            4 * sc * n * m + agreement + 6000 * n * m * Abs(sa - 5 * n))

\* the value o (in 1e-3) is NumOverall / DenOverall rounded to 3 decimals
IsOverallOf(o, verdicts) ==
    /\ o \in 0..1000
    /\ verdicts = <<>> => o = 0
    /\ verdicts # <<>> =>
          2 * Abs(NumOverall(verdicts) - o * (DenOverall(verdicts) \div 1000))
              <= DenOverall(verdicts) \div 1000

\* C22: the overall confidence is 0.4 * mean(confidence) + 0.3 * agreement
\* + 0.3 * certainty, with certainty = |mean(ai_prob) - 0.5| * 2 and
\* agreement = 1 - min(1, variance(ai_prob)), capped at 1.0 and rounded to
\* three decimals; it lies in [0, 1] for every list of verdicts and is 0.0
\* for the empty list, both when called on a list and inside engine.analyze.
C22_OverallConfidenceFormula ==
    /\ (pc = "done" /\ last.op = "confidence")
          => IsOverallOf(last.overall_confidence, inp.predictions)
    /\ AnalyzeReturned
          => IsOverallOf(last.result.overall_confidence, last.predictions)

\* three verdicts that disagree: none of the three terms vanishes or is at
\* its maximum
C22_Witness ==
    /\ pc = "done" /\ last.op = "confidence"
    /\ inp.predictions = << [confidence |-> 5500, ai_prob |-> 10],
                            [confidence |-> 10000, ai_prob |-> 10],
                            [confidence |-> 5500, ai_prob |-> 5] >>
    /\ last.overall_confidence = 755

\* C23: with the cache enabled (the default) a facade analyze of a text that
\* was analysed by the call before it returns the cached result: the
\* ensemble is not run again, so prediction_history and stats.total_analyses
\* do not grow and the result is the one returned before.
C23_RepeatedAnalyzeServedFromCache ==
    [][(/\ last.op = "facade_analyze" /\ ~last.raised
        /\ last'.op = "facade_analyze" /\ last'.text = last.text)
          => /\ ~last'.raised
             /\ last'.result = last.result
             /\ prediction_history' = prediction_history
             /\ stats' = stats]_vars

\* every thread has finished its call
CallsDone == \A t \in Threads : calls[t].pc \in {"returned", "raised"}

\* the call analyze(text) run alone on the engine as constructed
Alone(text) ==
    EnsembleEngine_analyze(DEFAULT_ANALYZERS, EnsembleEngine_init(NoWeights).weights,
                           <<>>, text, 1)

\* the records of a history without their timestamps
Untimed(history) ==
    [i \in DOMAIN history |->
        [ensemble_result |-> history[i].ensemble_result,
         overall_confidence |-> history[i].overall_confidence]]

\* interleaved calls do not interfere: every call ends as it ends alone
\* (with the same result or the same exception), the roster and the weights
\* are those of the constructor, and the history holds one record for every
\* call that returned, the one that call appends when run alone
CallsIsolated ==
    /\ analyzers = DEFAULT_ANALYZERS
    /\ weights = EnsembleEngine_init(NoWeights).weights
    /\ CallsDone =>
          /\ \A t \in Threads :
                /\ (calls[t].pc = "raised") = Alone(calls[t].text).raised
                /\ calls[t].pc = "returned"
                      => calls[t].result = Alone(calls[t].text).result
          /\ Len(prediction_history)
                = Cardinality({t \in Threads : calls[t].pc = "returned"})
          /\ \A t \in Threads :
                calls[t].pc = "returned"
                    => \E i \in DOMAIN prediction_history :
                          Untimed(prediction_history)[i]
                              = Untimed(Alone(calls[t].text).history)[1]

\* C24: analyze calls are re-entrant: for every interleaving of two analyze
\* calls on one engine each call returns the result it returns when run
\* alone, the roster and the weights are unchanged, and the history holds
\* exactly one new record per call.
C24_InterleavedCallsEachReturnAndRecord ==
    /\ analyzers = DEFAULT_ANALYZERS
    /\ weights = EnsembleEngine_init(NoWeights).weights
    /\ CallsDone =>
          /\ \A t \in Threads :
                /\ calls[t].pc = "returned"
                /\ calls[t].result = Alone(calls[t].text).result
          /\ Len(prediction_history) = MaxCalls

\* an ensemble result (probabilities in 1e-4) whose classification and
\* confidence_level follow from the probabilities it reports
AgreesWithReported(er) ==
    /\ er.classification = "Probabilmente AI" <=> er.ai_probability > 6000
    /\ er.classification = "Probabilmente Umano" <=> er.ai_probability < 4000
    /\ er.confidence_level = "Alta"
          <=> \/ er.ai_probability > 6000 /\ er.ai_probability > 7500
              \/ er.ai_probability < 4000 /\ er.human_probability > 7500

\* C25: the classification agrees with the reported probabilities, which
\* are rounded to four decimals: "Probabilmente AI" exactly when the
\* reported ai_probability is above 0.6, "Probabilmente Umano" exactly when
\* it is below 0.4, and confidence_level "Alta" exactly when the reported
\* probability of the winning class is above 0.75.
C25_ClassificationAgreesWithReported ==
    AnalyzeReturned => AgreesWithReported(last.result.ensemble_result)

\* C26: after any number n >= 0 of analyze calls get_prediction_statistics
\* and export_predictions return without raising: the statistics are the
\* message 'No predictions yet' when n = 0 and have total_predictions = n
\* otherwise, and the export holds at most the last 100 records of the
\* history, in order.
C26_StatisticsAndExportReturn ==
    /\ last.op = "get_prediction_statistics" =>
          /\ ~last.returned.raised
          /\ IF prediction_history = <<>>
             THEN last.returned.message = "No predictions yet"
             ELSE last.returned.total_predictions = Len(prediction_history)
    /\ last.op = "export_predictions" =>
          /\ ~last.raised
          /\ Len(last.history) <= ExportWindow
          /\ \A i \in DOMAIN last.history :
                last.history[i]
                    = prediction_history[Len(prediction_history) - Len(last.history) + i]

\* C27: after any sequence of add_analyzer calls (a registry name is added
\* and returns True, an unknown name returns False and changes nothing) the
\* number of entries of individual_results of an analyze call equals the
\* analyzer_count it reports.
C27_IndividualResultsMatchAnalyzerCount ==
    (last.op = "analyze" /\ ~last.raised) => last.individual_count = last.analyzer_count

C29_WeightMapsIsolated ==
    [][/\ objects'.dicts[DefaultWeightsRef] = DEFAULT_WEIGHTS
       /\ (last'.op = "new_engine" /\ last'.default)
             => WeightsOf(objects', last'.engine) = DEFAULT_WEIGHTS
       /\ \A f \in DOMAIN objects.engines :
             f # last'.engine => WeightsOf(objects', f) = WeightsOf(objects, f)]_vars

\* C30: in EnsembleAnalyzer every analyzer that produced a verdict is
\* weighted by the weight at its own roster position in
\* [0.25, 0.25, 0.20, 0.15, 0.15] (times its confidence), whichever of the
\* other analyzers failed, and analyze returns a result for every subset of
\* failing analyzers.
C30_EnsembleAnalyzerWeightsByRosterPosition ==
    (pc = "done" /\ last.op = "ensemble_analyzer") =>
        /\ ~last.raised
        /\ LET survivors == {i \in DOMAIN inp.outcomes : ~inp.outcomes[i].raised}
               wt == [i \in DOMAIN inp.outcomes |->
                         IF i \in survivors
                         THEN EnsembleAnalyzer_weights[i] * inp.outcomes[i].confidence
                         ELSE 0]
               ai == [i \in DOMAIN inp.outcomes |->
                         IF i \in survivors THEN inp.outcomes[i].ai_prob * wt[i] ELSE 0]
           IN  Reduce(last.ai_prob) = Reduce(<<SumSeq(ai), 10 * SumSeq(wt)>>)


====
